---- MODULE Spec2Model ----
(***************************************************************************)
(* Risk scoring engine of the UNESCO heritage-site risk model.            *)
(*                                                                         *)
(* Numbers are fixed point.  Sub-scores are thousandths (1.0 = Milli),     *)
(* weights are millionths (1.0 = Micro), a composite score is the product  *)
(* of the two (1.0 = Nano).  A missing value (SQL NULL, pandas NaN) is the *)
(* marker NaN.  A sub-score column is named by its weight key: the column  *)
(* urban_density holds urban_density_score, and so on.                     *)
(***************************************************************************)
EXTENDS Integers, Sequences, FiniteSets, TLC

VARIABLES
    weights,        \* the configured RISK_WEIGHTS / DEFAULT_WEIGHTS
    vwOut,          \* outcome of a call of validate_weights
    crow, cout,     \* input row and outcome of a call of compute_composite_score
    nagg, nraw, nscore,   \* SQL aggregate, raw column and score column of one sub-score
    events, total_energy, \* earthquakes around one site and the site's seismic raw value
    pc, session, sub, scores_df, risk_scores, reads, writes, error, rejected,
                    \* a run of calculate_all_risk_scores
    obs, raw_totals,      \* hazard observations and the raw totals of the sites
    ti, crs_valid, correlated,  \* task instances of a run of the DAG
    site_data, op_log,    \* the datastore across scoring and anomaly passes
    hazard_gdf, urban_gdf, sites_gdf, max_distance_m, buffer_m, joined,
                    \* a call of a spatial join
    urban_features, urban_stats,  \* the urban features table and the urban query
    renorm_in, renorm_out,        \* a score column normalized once more
    records, european_sites,      \* a call of filter_european_sites
    feat_df, feat_X,              \* a call of prepare_feature_matrix
    climate_events, climate_stats, \* the climate samples and the climate query
    heritage_sites, risk_rows, call, scores_ids, pending, sessions, outcomes
                    \* calls of the two analysis entry points on one datastore

vars == <<weights, vwOut, crow, cout, nagg, nraw, nscore, events, total_energy,
          pc, session, sub, scores_df, risk_scores, reads, writes, error, rejected,
          obs, raw_totals, ti, crs_valid, correlated, site_data, op_log,
          hazard_gdf, urban_gdf, sites_gdf, max_distance_m, buffer_m, joined,
          urban_features, urban_stats, renorm_in, renorm_out,
          records, european_sites, feat_df, feat_X,
          climate_events, climate_stats,
          heritage_sites, risk_rows, call, scores_ids, pending, sessions, outcomes>>

weightVars == <<vwOut>>
compositeVars == <<crow, cout>>
normVars == <<nagg, nraw, nscore>>
seismicVars == <<events, total_energy>>
runVars == <<pc, session, sub, scores_df, risk_scores, reads, writes, error, rejected>>
accumVars == <<obs, raw_totals>>
dagVars == <<ti, crs_valid, correlated>>
storeVars == <<site_data, op_log>>
joinVars == <<hazard_gdf, urban_gdf, sites_gdf, max_distance_m, buffer_m, joined>>
urbanVars == <<urban_features, urban_stats>>
renormVars == <<renorm_in, renorm_out>>
filterVars == <<records, european_sites>>
featVars == <<feat_df, feat_X>>
climateVars == <<climate_events, climate_stats>>
callVars == <<heritage_sites, risk_rows, call, scores_ids, pending, sessions, outcomes>>
extraVars == <<urbanVars, renormVars, filterVars, featVars, climateVars, callVars>>
laterVars == <<accumVars, dagVars, storeVars, joinVars, extraVars>>

-----------------------------------------------------------------------------
(* Fixed-point units and small helpers *)

Milli == 10 * 10 * 10
Micro == Milli * Milli
Nano == Micro * Milli
NaN == 0 - 1

Abs(x) == IF x < 0 THEN 0 - x ELSE x

RECURSIVE SetSum(_, _)
SetSum(f, S) ==
    IF S = {} THEN 0
    ELSE LET k == CHOOSE x \in S : TRUE IN f[k] + SetSum(f, S \ {k})

SetMax(S) == CHOOSE x \in S : \A y \in S : y <= x
SetMin(S) == CHOOSE x \in S : \A y \in S : x <= y

-----------------------------------------------------------------------------
(* Configuration: config/settings.py *)

WeightKeys == {"urban_density", "climate_anomaly", "seismic_risk",
               "fire_risk", "flood_risk", "coastal_risk"}

\* RISK_WEIGHTS, in millionths
RISK_WEIGHTS ==
    [urban_density |-> 250000, climate_anomaly |-> 200000, seismic_risk |-> 200000,
     fire_risk |-> 150000, flood_risk |-> 100000, coastal_risk |-> 100000]

DEFAULT_WEIGHTS == RISK_WEIGHTS

\* RISK_BINS = [0, 0.4, 0.6, 0.8, 1.0] and RISK_LABELS
RISK_BINS == <<0, 4 * (Nano \div 10), 6 * (Nano \div 10), 8 * (Nano \div 10), Nano>>
RISK_LABELS == <<"low", "medium", "high", "critical">>

-----------------------------------------------------------------------------
(* validate_weights *)

\* atol=1e-6 of the np.isclose call, in millionths
ATOL == 1
\* the rtol that np.isclose applies when none is given is 1e-5 = 1 / RTOL_INV
RTOL_INV == 100000

\* np.isclose(a, b, atol): |a - b| <= atol + rtol * |b|
IsClose(a, b) == Abs(a - b) <= ATOL + (Abs(b) \div RTOL_INV)

\* sum(weights.values())
SumWeights(w) == SetSum(w, DOMAIN w)

\* TRUE: returns True.  FALSE: raises ValueError.
validate_weights(w) == IsClose(SumWeights(w), Micro)

-----------------------------------------------------------------------------
(* compute_composite_score *)

FillNa(v) == IF v = NaN THEN 0 ELSE v

\* a composite that is not clipped
Clip_None(x, lo, hi) == x

\* Series.clip(lo, hi)
Clip(x, lo, hi) == IF x < lo THEN lo ELSE IF x > hi THEN hi ELSE x

\* pd.cut without include_lowest: the lowest edge belongs to no bin
Cut_NoLowest(x, bins, labels) ==
    IF x <= bins[1] \/ x > bins[Len(bins)] THEN "NaN"
    ELSE labels[CHOOSE i \in 1..Len(labels) : bins[i] < x /\ x <= bins[i + 1]]

\* pd.cut(x, bins, labels, include_lowest=True): the bins are closed on the right,
\* the first one also on the left; a value in no bin has no label (NaN).
Cut(x, bins, labels) ==
    IF x < bins[1] \/ x > bins[Len(bins)] THEN "NaN"
    ELSE IF x = bins[1] THEN labels[1]
    ELSE labels[CHOOSE i \in 1..Len(labels) : bins[i] < x /\ x <= bins[i + 1]]

\* bins=[0, 0.25, 0.50, 0.75, 1.0] of compute_composite_score
CompositeBins == <<0, Nano \div 4, Nano \div 2, 3 * (Nano \div 4), Nano>>
CompositeLabels == <<"low", "medium", "high", "critical">>

WeightedSum(r, w) ==
    r.urban_density * w.urban_density +
    r.climate_anomaly * w.climate_anomaly +
    r.seismic_risk * w.seismic_risk +
    r.fire_risk * w.fire_risk +
    r.flood_risk * w.flood_risk +
    r.coastal_risk * w.coastal_risk

CompositeRow(row, w) ==
    LET r == [k \in WeightKeys |-> FillNa(row[k])]
        c == Clip(WeightedSum(r, w), 0, Nano)
    IN  [scores |-> r, composite_risk_score |-> c,
         risk_level |-> Cut(c, CompositeBins, CompositeLabels)]

\* The outcome of compute_composite_score(scores_df, weights): the exception it
\* raises, or the frame with the two columns added.
compute_composite_score(df, w) ==
    IF ~validate_weights(w) THEN [status |-> "ValueError", df |-> <<>>]
    ELSE IF \E i \in DOMAIN df : ~(WeightKeys \subseteq DOMAIN df[i])
         THEN [status |-> "ValueError", df |-> <<>>]
    ELSE IF ~(WeightKeys \subseteq DOMAIN w) THEN [status |-> "KeyError", df |-> <<>>]
    ELSE [status |-> "ok", df |-> [i \in DOMAIN df |-> CompositeRow(df[i], w)]]

-----------------------------------------------------------------------------
(* _log_minmax_scale and the raw column it is given *)

\* COALESCE(v, d) of the sub-score queries
Coalesce(v, d) == IF v = NaN THEN d ELSE v

\* The raw column a sub-score query returns, one value per heritage site, from
\* the per-site aggregate of the LEFT JOIN (NULL for a site that joins no row).
QueryRaw_NoCoalesce(agg) == agg
QueryRaw(agg) == [i \in DOMAIN agg |-> Coalesce(agg[i], 0)]

\* the raw magnitudes the model draws
RawValues == {0, 1, 50, 48000000}

\* np.log1p, in thousandths, rounded to the nearest
Log1pMilli(x) ==
    CASE x = 0 -> 0
      [] x = 1 -> 693
      [] x = 50 -> 3932
      [] x = 48000000 -> 17687

\* Series.max() / MinMaxScaler.fit skip missing values
NotNa(col) == {i \in DOMAIN col : col[i] # NaN}

\* a scaler that divides by the range without subtracting the column's
\* minimum (a constant column still scores 0)
MinMaxScale_NoShift(col) ==
    LET vals == {col[i] : i \in NotNa(col)}
        range == SetMax(vals) - SetMin(vals)
    IN  [i \in DOMAIN col |->
            IF col[i] = NaN THEN NaN
            ELSE IF range = 0 THEN 0
            ELSE (col[i] * Milli) \div range]

\* MinMaxScaler().fit_transform of one column: (x - min) / (max - min), a range
\* of zero being replaced by 1; a missing value stays missing.
MinMaxScale(col) ==
    LET vals == {col[i] : i \in NotNa(col)}
        lo == SetMin(vals)
        range == SetMax(vals) - lo
        scale == IF range = 0 THEN 1 ELSE range
    IN  [i \in DOMAIN col |->
            IF col[i] = NaN THEN NaN ELSE ((col[i] - lo) * Milli) \div scale]

\* the score column without the log1p transform: the raw values are rescaled
\* directly (the quotient is taken so that large raw values do not overflow)
log_minmax_scale_NoLog(col) ==
    IF NotNa(col) = {} \/ SetMax({col[i] : i \in NotNa(col)}) = 0
    THEN [i \in DOMAIN col |-> 0]
    ELSE LET vals == {col[i] : i \in NotNa(col)}
             lo == SetMin(vals)
             range == SetMax(vals) - lo
         IN  [i \in DOMAIN col |->
                IF col[i] = NaN THEN NaN
                ELSE IF range = 0 THEN 0
                ELSE IF range >= Milli THEN (col[i] - lo) \div (range \div Milli)
                ELSE ((col[i] - lo) * Milli) \div range]

\* _log_minmax_scale(df, raw_col, score_col): the score column of a raw column
log_minmax_scale(col) ==
    IF NotNa(col) = {} \/ SetMax({col[i] : i \in NotNa(col)}) = 0
    THEN [i \in DOMAIN col |-> 0]
    ELSE MinMaxScale([i \in DOMAIN col |->
                        IF col[i] = NaN THEN NaN ELSE Log1pMilli(col[i])])

-----------------------------------------------------------------------------
(* compute_seismic_risk_score: the raw value of one site                   *)
(*                                                                         *)
(* An earthquake is [mag15, dist]: mag15 is 1.5 * magnitude, an integer,   *)
(* and dist its ST_Distance to the site in hectometres (0.1 km).  Energy   *)
(* is counted in units of 1 / EnergyUnit per square hectometre, which      *)
(* keeps every quotient below exact.                                       *)

\* radius of ST_DWithin(hs.geom, ee.geom, 200000), in metres
SEISMIC_RADIUS_M == 200000

EnergyUnit == 4 * Micro

RECURSIVE Pow10(_)
Pow10(k) == IF k = 0 THEN 1 ELSE 10 * Pow10(k - 1)

\* GREATEST(ST_Distance / 1000.0, 0.1), in hectometres
FloorDist(d) == IF d < 1 THEN 1 ELSE d

\* an energy that falls off with the distance, not with its square
EventEnergy_Linear(e) == (Pow10(e.mag15) * EnergyUnit) \div FloorDist(e.dist)

\* POWER(10, 1.5 * magnitude) / POWER(GREATEST(distance_km, 0.1), 2)
EventEnergy(e) ==
    (Pow10(e.mag15) * EnergyUnit) \div (FloorDist(e.dist) * FloorDist(e.dist))

\* the earthquakes the LEFT JOIN ... ON ST_DWithin(...) pairs with the site
SeismicJoined(evs) == {i \in DOMAIN evs : evs[i].dist * 100 <= SEISMIC_RADIUS_M}

\* SUM(...) of SQL: NULL over no rows
SqlSum(f, S) == IF S = {} THEN NaN ELSE SetSum(f, S)

\* COALESCE(SUM(energy), 0) AS total_energy
SeismicEnergy(evs) ==
    Coalesce(SqlSum([i \in DOMAIN evs |-> EventEnergy(evs[i])], SeismicJoined(evs)), 0)

-----------------------------------------------------------------------------
(* compute_coastal_risk_score and the elevation it rests on *)

\* COASTAL_ELEVATION_THRESHOLD_M
COASTAL_ELEVATION_THRESHOLD_M == 10

\* fetch_elevation.compute_coastal_risk_score(elevation), elevation in metres
elevation_coastal_risk(elevation) ==
    IF elevation = NaN THEN 0
    ELSE IF elevation < 0 THEN Milli
    ELSE LET score == Milli - (elevation * Milli) \div COASTAL_ELEVATION_THRESHOLD_M
         IN  IF score < 0 THEN 0 ELSE score

\* heritage_sites.coastal_risk_score as the elevation pass leaves it: NULL for
\* a site whose elevation could not be fetched
stored_coastal_risk(elevation) ==
    IF elevation = NaN THEN NaN ELSE elevation_coastal_risk(elevation)

\* risk_scoring.compute_coastal_risk_score: the score column, from the column
\* heritage_sites.coastal_risk_score (has_columns) or the placeholder 0.0
compute_coastal_risk_score(has_columns, stored) ==
    IF has_columns
    THEN [i \in DOMAIN stored |-> Clip(Coalesce(stored[i], 0), 0, Milli)]
    ELSE [i \in DOMAIN stored |-> 0]

-----------------------------------------------------------------------------
(* upsert_risk_scores *)

\* risk_level_str: str(row['risk_level']) if pd.notna(row['risk_level']) else 'low'
RiskLevelStr(level) == IF level = "NaN" THEN "low" ELSE level

\* an update that adds the new composite score to the one already stored
UpsertRecord_Accumulate(table, site, row) ==
    [scores |-> row.scores,
     composite_risk_score |->
        IF site \in DOMAIN table
        THEN table[site].composite_risk_score + row.composite_risk_score
        ELSE row.composite_risk_score,
     risk_level |-> RiskLevelStr(row.risk_level),
     isolation_forest_score |->
        IF site \in DOMAIN table THEN table[site].isolation_forest_score ELSE NaN,
     is_anomaly |-> IF site \in DOMAIN table THEN table[site].is_anomaly ELSE FALSE]

\* The record of risk_scores for a row of the frame: an existing record keeps
\* isolation_forest_score and is_anomaly, a new one has the column defaults.
UpsertRecord(table, site, row) ==
    [scores |-> row.scores,
     composite_risk_score |-> row.composite_risk_score,
     risk_level |-> RiskLevelStr(row.risk_level),
     isolation_forest_score |->
        IF site \in DOMAIN table THEN table[site].isolation_forest_score ELSE NaN,
     is_anomaly |-> IF site \in DOMAIN table THEN table[site].is_anomaly ELSE FALSE]

\* the table after the loop over the rows and the commit
upsert_risk_scores(table, df) ==
    [site \in DOMAIN table \cup DOMAIN df |->
        IF site \in DOMAIN df THEN UpsertRecord(table, site, df[site]) ELSE table[site]]

-----------------------------------------------------------------------------
(* Values of the variables a specification does not use *)

PendingFrame == [status |-> "pending", df |-> <<>>]

WeightIdle == vwOut = "idle"
CompositeIdle == crow = <<>> /\ cout = PendingFrame
NormIdle == nagg = <<>> /\ nraw = <<>> /\ nscore = <<>>
SeismicIdle == events = <<>> /\ total_energy = NaN
RunIdle ==
    /\ pc = "idle" /\ session = "none" /\ sub = <<>> /\ scores_df = <<>>
    /\ risk_scores = <<>> /\ reads = 0 /\ writes = 0 /\ error = "none"
    /\ rejected = {}
AccumIdle == obs = <<>> /\ raw_totals = <<>>
DagIdle == ti = <<>> /\ crs_valid = "unknown" /\ correlated = {}
StoreIdle == site_data = <<>> /\ op_log = <<>>
JoinIdle ==
    /\ hazard_gdf = <<>> /\ urban_gdf = <<>> /\ sites_gdf = <<>>
    /\ max_distance_m = 0 /\ buffer_m = 0 /\ joined = "pending"
UrbanIdle == urban_features = <<>> /\ urban_stats = <<>>
RenormIdle == renorm_in = <<>> /\ renorm_out = <<>>
FilterIdle == records = <<>> /\ european_sites = <<>>
FeatIdle == feat_df = <<>> /\ feat_X = <<>>
ClimateIdle == climate_events = <<>> /\ climate_stats = <<>>
CallIdle ==
    /\ heritage_sites = {} /\ risk_rows = <<>> /\ call = [fn |-> "none", pc |-> "idle"]
    /\ scores_ids = <<>> /\ pending = <<>> /\ sessions = <<>> /\ outcomes = <<>>
ExtraIdle == UrbanIdle /\ RenormIdle /\ FilterIdle /\ FeatIdle /\ ClimateIdle /\ CallIdle
LaterIdle == AccumIdle /\ DagIdle /\ StoreIdle /\ JoinIdle /\ ExtraIdle

-----------------------------------------------------------------------------
(* SpecWeights: calls of validate_weights *)

\* The largest deviation, in millionths, of a drawn weight from its default.
MaxDelta == 12
Deltas == (0 - MaxDelta)..MaxDelta

\* invalid_weights of test_validate_weights_invalid: the sum is 1.1
InvalidWeights ==
    [urban_density |-> 300000, climate_anomaly |-> 200000, seismic_risk |-> 200000,
     fire_risk |-> 200000, flood_risk |-> 100000, coastal_risk |-> 100000]

\* a mapping that lacks the category coastal_risk; the five weights sum to 1
MissingKeyWeights ==
    [urban_density |-> 250000, climate_anomaly |-> 200000, seismic_risk |-> 200000,
     fire_risk |-> 150000, flood_risk |-> 200000]

WeightCases ==
    {[DEFAULT_WEIGHTS EXCEPT !.urban_density = @ + d1, !.coastal_risk = @ + d2] :
        d1 \in Deltas, d2 \in Deltas}
    \cup {InvalidWeights, MissingKeyWeights}

InitWeights ==
    /\ weights \in WeightCases
    /\ vwOut = "pending"
    /\ CompositeIdle /\ NormIdle /\ SeismicIdle /\ RunIdle /\ LaterIdle

ValidateWeights ==
    /\ vwOut = "pending"
    /\ vwOut' = IF validate_weights(weights) THEN "True" ELSE "ValueError"
    /\ UNCHANGED <<weights, compositeVars, normVars, seismicVars, runVars, laterVars>>

NextWeights == ValidateWeights

SpecWeights == InitWeights /\ [][NextWeights]_vars

\* C2: validate_weights returns True exactly when the sum of the weights differs
\* from 1 by at most 1e-6, and raises for every other mapping.
C2_AcceptsExactlyWithinAtol ==
    vwOut # "pending" =>
        (vwOut = "True" <=> Abs(SumWeights(weights) - Micro) <= ATOL)

-----------------------------------------------------------------------------
(* SpecComposite: calls of compute_composite_score on a one-row frame *)

\* Sub-scores are drawn from the grid 0, 1/ScoreSteps, ..., 1 and NaN.
ScoreSteps == 2
ScoreGrid == {(i * Milli) \div ScoreSteps : i \in 0..ScoreSteps}

\* accepted by validate_weights with a sum of 1.000001
OverWeights == [DEFAULT_WEIGHTS EXCEPT !.urban_density = @ + 1]

\* accepted by validate_weights (the sum is 1) with a negative weight
NegativeWeights ==
    [DEFAULT_WEIGHTS EXCEPT !.urban_density = 0 - 250000, !.climate_anomaly = 700000]

CompositeWeightCases ==
    {DEFAULT_WEIGHTS, InvalidWeights, MissingKeyWeights, OverWeights, NegativeWeights}

InitComposite ==
    /\ weights \in CompositeWeightCases
    /\ crow \in [WeightKeys -> ScoreGrid \cup {NaN}]
    /\ cout = PendingFrame
    /\ WeightIdle /\ NormIdle /\ SeismicIdle /\ RunIdle /\ LaterIdle

ComputeComposite ==
    /\ cout.status = "pending"
    /\ cout' = compute_composite_score(<<crow>>, weights)
    /\ UNCHANGED <<weights, crow, weightVars, normVars, seismicVars, runVars, laterVars>>

NextComposite == ComputeComposite

SpecComposite == InitComposite /\ [][NextComposite]_vars

\* six non-negative weights summing to 1
ValidWeights(w) ==
    /\ DOMAIN w = WeightKeys
    /\ \A k \in WeightKeys : w[k] >= 0
    /\ SumWeights(w) = Micro

\* the plain weighted sum of a row, a missing sub-score counting as 0
PlainSum(row, w) ==
    SetSum([k \in WeightKeys |-> (IF row[k] = NaN THEN 0 ELSE row[k]) * w[k]], WeightKeys)

\* C4: the composite is the weighted sum of the six sub-scores, a missing one
\* counting as 0, clipped to [0,1]; for sub-scores in [0,1] and six non-negative
\* weights summing to 1 it is the plain weighted sum.
C4_CompositeIsClippedWeightedSum ==
    cout.status = "ok" =>
        LET c == cout.df[1].composite_risk_score
            s == PlainSum(crow, weights)
        IN  /\ s < 0 => c = 0
            /\ s > Nano => c = Nano
            /\ (0 <= s /\ s <= Nano) => c = s
            /\ ValidWeights(weights) => c = s

C4_Witness ==
    /\ cout.status = "ok"
    /\ ValidWeights(weights)
    /\ crow.urban_density = NaN
    /\ crow.seismic_risk = Milli
    /\ crow.flood_risk = Milli \div 2
    /\ cout.df[1].composite_risk_score = 250 * Micro

\* C5: under six non-negative weights summing to 1, six sub-scores of 0 give a
\* composite of exactly 0 and the level low, and six sub-scores of 1 give a
\* composite of exactly 1 and the level critical.
C5_FixedPoints ==
    (cout.status = "ok" /\ ValidWeights(weights)) =>
        /\ (\A k \in WeightKeys : crow[k] = 0) =>
              /\ cout.df[1].composite_risk_score = 0
              /\ cout.df[1].risk_level = "low"
        /\ (\A k \in WeightKeys : crow[k] = Milli) =>
              /\ cout.df[1].composite_risk_score = Nano
              /\ cout.df[1].risk_level = "critical"

C5_Witness ==
    /\ cout.status = "ok"
    /\ ValidWeights(weights)
    /\ \A k \in WeightKeys : crow[k] = Milli
    /\ cout.df[1].risk_level = "critical"

\* the partition documented in the docstring of compute_composite_score:
\* low [0, 0.25), medium [0.25, 0.50), high [0.50, 0.75), critical [0.75, 1.0]
DocumentedLevel(c) ==
    IF c < Nano \div 4 THEN "low"
    ELSE IF c < Nano \div 2 THEN "medium"
    ELSE IF c < 3 * (Nano \div 4) THEN "high"
    ELSE "critical"

\* C6: the risk level is the documented half-open partition of the composite
\* score; a composite exactly on 0.25, 0.50 or 0.75 receives the upper label.
C6_LevelIsDocumentedPartition ==
    (cout.status = "ok" /\ ValidWeights(weights)) =>
        cout.df[1].risk_level = DocumentedLevel(cout.df[1].composite_risk_score)

\* the level the configured partition RISK_BINS / RISK_LABELS gives
ConfiguredLevel(c) == Cut(c, RISK_BINS, RISK_LABELS)

\* the level assignment of the dashboard (load_demo_data)
DashboardLevel(c) ==
    IF c >= 8 * (Nano \div 10) THEN "critical"
    ELSE IF c >= 6 * (Nano \div 10) THEN "high"
    ELSE IF c >= 4 * (Nano \div 10) THEN "medium"
    ELSE "low"

\* C7: for every composite score the level compute_composite_score assigns is
\* the level of the configured partition and the level the dashboard assigns.
C7_OneBoundarySet ==
    (cout.status = "ok" /\ ValidWeights(weights)) =>
        LET c == cout.df[1].composite_risk_score
        IN  /\ cout.df[1].risk_level = ConfiguredLevel(c)
            /\ cout.df[1].risk_level = DashboardLevel(c)

-----------------------------------------------------------------------------
(* SpecNorm: one sub-score query followed by _log_minmax_scale *)

\* Number of heritage sites (rows) of the frame that is normalized.
NormRows == 3

InitNorm ==
    /\ nagg \in [1..NormRows -> RawValues \cup {NaN}]
    /\ nraw = <<>>
    /\ nscore = <<>>
    /\ weights = DEFAULT_WEIGHTS
    /\ WeightIdle /\ CompositeIdle /\ SeismicIdle /\ RunIdle /\ LaterIdle

ComputeSubScore ==
    /\ nscore = <<>>
    /\ nraw' = QueryRaw(nagg)
    /\ nscore' = log_minmax_scale(nraw')
    /\ UNCHANGED <<weights, nagg, weightVars, compositeVars, seismicVars, runVars, laterVars>>

NextNorm == ComputeSubScore

SpecNorm == InitNorm /\ [][NextNorm]_vars

NormDone == nscore # <<>>

\* C8 as stated: whenever the raw column is not entirely zero or missing, the
\* site with the smallest raw value scores 0 and the site with the largest
\* raw value scores 1.
C8_SmallestScoresZeroLargestScoresOne ==
    (NormDone /\ \E i \in DOMAIN nraw : nraw[i] > 0) =>
        LET lo == SetMin({nraw[i] : i \in DOMAIN nraw})
            hi == SetMax({nraw[i] : i \in DOMAIN nraw})
        IN  \A i \in DOMAIN nraw :
                /\ nraw[i] = lo => nscore[i] = 0
                /\ nraw[i] = hi => nscore[i] = Milli

\* C8 (amended): when the raw column holds at least two different values, each
\* site's score is (log1p(raw) - m) / (M - m), m and M the minimum and maximum
\* of log1p(raw) over all sites, so the smallest raw value scores 0 and the
\* largest scores 1, and raw [0, 50, 48,000,000] scores [0, 0.222, 1]; when all
\* raw values are equal, zero or not, every site scores 0.
C8_LogThenMinMax ==
    NormDone =>
        LET lg == [i \in DOMAIN nraw |-> Log1pMilli(nraw[i])]
            m == SetMin({lg[i] : i \in DOMAIN nraw})
            M == SetMax({lg[i] : i \in DOMAIN nraw})
        IN  /\ M > m =>
                \A i \in DOMAIN nraw :
                    /\ nscore[i] = ((lg[i] - m) * Milli) \div (M - m)
                    /\ lg[i] = m => nscore[i] = 0
                    /\ lg[i] = M => nscore[i] = Milli
            /\ M = m => \A i \in DOMAIN nraw : nscore[i] = 0
            /\ (\E i, j, k \in DOMAIN nraw :
                    nraw[i] = 0 /\ nraw[j] = 50 /\ nraw[k] = 48000000) =>
                \A j \in DOMAIN nraw : nraw[j] = 50 => nscore[j] = 222

C8_Witness ==
    /\ NormDone
    /\ nraw[1] = 0 /\ nraw[2] = 50 /\ nraw[3] = 48000000
    /\ nscore[1] = 0 /\ nscore[2] = 222 /\ nscore[3] = Milli

\* C9: a missing raw magnitude is 0 before normalization: the site scores what
\* a raw value of 0 scores, and that 0 is the column's minimum, so every other
\* site's score is log1p(raw) / M with M the column's largest log1p(raw).
C9_MissingCountsAsZero ==
    (NormDone /\ \E i \in DOMAIN nagg : nagg[i] = NaN) =>
        LET hi == SetMax({0} \cup {nagg[j] : j \in NotNa(nagg)})
        IN  \A i \in DOMAIN nagg :
                /\ nagg[i] = NaN => (nraw[i] = 0 /\ nscore[i] = 0)
                /\ (nagg[i] # NaN /\ hi > 0) =>
                      nscore[i] = (Log1pMilli(nagg[i]) * Milli) \div Log1pMilli(hi)
                /\ hi = 0 => nscore[i] = 0

C9_Witness ==
    /\ NormDone
    /\ nagg[1] = NaN /\ nagg[2] = 50 /\ nagg[3] = 48000000
    /\ nscore[1] = 0 /\ nscore[2] = 222 /\ nscore[3] = Milli

-----------------------------------------------------------------------------
(* SpecSeismic: the seismic raw value of one site *)

\* Number of earthquakes in the table.
MaxEvents == 2

\* 1.5 * magnitude of the earthquakes drawn
Mags15 == {0, 1, 2}
\* distances drawn, in hectometres: 0, 0.1 km, 1 km, 100 km, 200 km, 200.1 km
Dists == {0, 1, 10, 1000, 2000, 2001}

EventValues == [mag15 : Mags15, dist : Dists]

InitSeismic ==
    /\ events \in UNION {[1..n -> EventValues] : n \in 0..MaxEvents}
    /\ total_energy = NaN
    /\ weights = DEFAULT_WEIGHTS
    /\ WeightIdle /\ CompositeIdle /\ NormIdle /\ RunIdle /\ LaterIdle

ComputeSeismicRaw ==
    /\ total_energy = NaN
    /\ total_energy' = SeismicEnergy(events)
    /\ UNCHANGED <<weights, events, weightVars, compositeVars, normVars, runVars, laterVars>>

NextSeismic == ComputeSeismicRaw

SpecSeismic == InitSeismic /\ [][NextSeismic]_vars

\* 10^(1.5 * magnitude) / max(distanceKm, 0.1)^2 of one earthquake, written out
\* for the distances drawn
EnergyAt(m15, d) ==
    LET e == CASE m15 = 0 -> 1 [] m15 = 1 -> 10 [] m15 = 2 -> 100
    IN  CASE d = 0 -> e * 4000000
          [] d = 1 -> e * 4000000
          [] d = 10 -> e * 40000
          [] d = 1000 -> e * 4
          [] d = 2000 -> e
          [] d = 2001 -> 0

\* C10: the seismic raw value is the sum over the earthquakes within 200 km of
\* 10^(1.5 * magnitude) / max(distanceKm, 0.1)^2; a larger magnitude at the
\* same distance never lowers it, a larger distance at the same magnitude
\* never raises it, and an earthquake at distance 0 counts as one at 0.1 km.
C10_SeismicSumIsMonotone ==
    total_energy # NaN =>
        /\ total_energy =
              SetSum([i \in DOMAIN events |-> EnergyAt(events[i].mag15, events[i].dist)],
                     DOMAIN events)
        /\ \A i \in DOMAIN events : \A m2 \in Mags15 :
              m2 >= events[i].mag15 =>
                  SeismicEnergy([events EXCEPT ![i].mag15 = m2]) >= total_energy
        /\ \A i \in DOMAIN events : \A d2 \in Dists :
              d2 >= events[i].dist =>
                  SeismicEnergy([events EXCEPT ![i].dist = d2]) <= total_energy
        /\ \A i \in DOMAIN events :
              events[i].dist = 0 =>
                  SeismicEnergy([events EXCEPT ![i].dist = 1]) = total_energy

C10_Witness ==
    /\ Len(events) = 2
    /\ events[1] = [mag15 |-> 2, dist |-> 0]
    /\ events[2] = [mag15 |-> 1, dist |-> 2000]
    /\ total_energy = 400000010

-----------------------------------------------------------------------------
(* Spec: one run of calculate_all_risk_scores                               *)
(*                                                                         *)
(* pc is the statement the run is at.  sub holds the sub-score frames      *)
(* computed so far, one score column per category; scores_df is the merged *)
(* frame; risk_scores is the table, a record per site id.  reads counts    *)
(* the queries sent to the datastore, writes the records committed.        *)

\* Number of heritage sites.
NumSites == 2
Sites == 1..NumSites

\* per-site aggregates a sub-score query can meet: no joined row, or a sum;
\* the urban query meets sums of two magnitudes
RunAggValues == {NaN, 48000000}
UrbanAggValues == {NaN, 50, 48000000}

\* elevations of the sites, in metres: not fetched, or 5 m
Elevations == {NaN, 5}

RunWeightCases == {DEFAULT_WEIGHTS, InvalidWeights, MissingKeyWeights}

\* the record of site 1, written by an earlier scoring run and anomaly pass;
\* the other sites have no record yet
PriorRecord ==
    [scores |-> [k \in WeightKeys |-> Milli],
     composite_risk_score |-> Nano,
     risk_level |-> "critical",
     isolation_forest_score |-> 0 - 100,
     is_anomaly |-> TRUE]

Init ==
    /\ weights \in RunWeightCases
    /\ pc = "idle"
    /\ session = "none"
    /\ sub = <<>>
    /\ scores_df = <<>>
    /\ risk_scores = [site \in {1} |-> PriorRecord]
    /\ reads = 0
    /\ writes = 0
    /\ error = "none"
    /\ rejected = {}
    /\ WeightIdle /\ CompositeIdle /\ NormIdle /\ SeismicIdle /\ LaterIdle

unchangedOthers == <<weights, weightVars, compositeVars, normVars, seismicVars, laterVars>>

\* session = get_session()
GetSession ==
    /\ pc = "idle"
    /\ session' = "open"
    /\ pc' = "urban_density"
    /\ UNCHANGED <<sub, scores_df, risk_scores, reads, writes, error, rejected, unchangedOthers>>

\* One of the five normalized sub-scores: the query, then _log_minmax_scale.
ComputeNormalized(at, key, aggs, next) ==
    /\ pc = at
    /\ \E agg \in [Sites -> aggs] :
          sub' = [k \in DOMAIN sub \cup {key} |->
                    IF k = key THEN log_minmax_scale(QueryRaw(agg)) ELSE sub[k]]
    /\ reads' = reads + 1
    /\ pc' = next
    /\ UNCHANGED <<session, scores_df, risk_scores, writes, error, rejected, unchangedOthers>>

ComputeUrbanDensity == ComputeNormalized("urban_density", "urban_density", UrbanAggValues, "climate_anomaly")
ComputeClimateAnomaly == ComputeNormalized("climate_anomaly", "climate_anomaly", RunAggValues, "seismic_risk")
ComputeSeismicRisk == ComputeNormalized("seismic_risk", "seismic_risk", RunAggValues, "fire_risk")
ComputeFireRisk == ComputeNormalized("fire_risk", "fire_risk", RunAggValues, "flood_risk")
ComputeFloodRisk == ComputeNormalized("flood_risk", "flood_risk", RunAggValues, "coastal_risk")

\* compute_coastal_risk_score(session): the column check, then the query
ComputeCoastalRisk ==
    /\ pc = "coastal_risk"
    /\ \E has_columns \in BOOLEAN : \E elev \in [Sites -> Elevations] :
          /\ has_columns \/ \A i \in Sites : elev[i] = NaN
          /\ sub' = [k \in DOMAIN sub \cup {"coastal_risk"} |->
                       IF k = "coastal_risk"
                       THEN compute_coastal_risk_score(has_columns,
                                [i \in Sites |-> stored_coastal_risk(elev[i])])
                       ELSE sub[k]]
    /\ reads' = reads + 2
    /\ pc' = "merge"
    /\ UNCHANGED <<session, scores_df, risk_scores, writes, error, rejected, unchangedOthers>>

\* the outer merges on site_id and scores_df.fillna(0)
MergeScores ==
    /\ pc = "merge"
    /\ scores_df' = [i \in Sites |-> [k \in WeightKeys |-> FillNa(sub[k][i])]]
    /\ pc' = "composite"
    /\ UNCHANGED <<session, sub, risk_scores, reads, writes, error, rejected, unchangedOthers>>

\* scores_df = compute_composite_score(scores_df, DEFAULT_WEIGHTS)
CompositeStep ==
    /\ pc = "composite"
    /\ LET out == compute_composite_score(scores_df, weights)
       IN  /\ out.status = "ok"
           /\ scores_df' = out.df
    /\ pc' = "upsert"
    /\ UNCHANGED <<session, sub, risk_scores, reads, writes, error, rejected, unchangedOthers>>

\* compute_composite_score raises: except logs and re-raises, finally closes
CompositeRaises ==
    /\ pc = "composite"
    /\ LET out == compute_composite_score(scores_df, weights)
       IN  /\ out.status # "ok"
           /\ error' = out.status
    /\ session' = "closed"
    /\ pc' = "failed"
    /\ UNCHANGED <<sub, scores_df, risk_scores, reads, writes, rejected, unchangedOthers>>

\* records_upserted = upsert_risk_scores(scores_df, session): one lookup per
\* row, the records changed or added in the session, then the commit, which
\* sends them to the datastore; the datastore accepts them all
UpsertStep ==
    /\ pc = "upsert"
    /\ risk_scores' = upsert_risk_scores(risk_scores, scores_df)
    /\ reads' = reads + Cardinality(DOMAIN scores_df)
    /\ writes' = writes + Cardinality(DOMAIN scores_df)
    /\ pc' = "return"
    /\ UNCHANGED <<session, sub, scores_df, error, rejected, unchangedOthers>>

\* a failed commit that leaves the accepted records of the run in the table
UpsertRaises_NoRollback ==
    /\ pc = "upsert"
    /\ \E site \in DOMAIN scores_df :
          /\ rejected' = {site}
          /\ risk_scores' = upsert_risk_scores(risk_scores,
                                [t \in DOMAIN scores_df \ {site} |-> scores_df[t]])
    /\ reads' = reads + Cardinality(DOMAIN scores_df)
    /\ writes' = writes + Cardinality(DOMAIN scores_df) - 1
    /\ error' = "IntegrityError"
    /\ session' = "closed"
    /\ pc' = "failed"
    /\ UNCHANGED <<sub, scores_df, unchangedOthers>>

\* The datastore rejects the record of a site (a referential or check
\* constraint).  The session does not flush before the commit (autoflush is
\* off), so the rejection is raised by session.commit(), outside the try of
\* the loop: upsert_risk_scores rolls back and re-raises, and
\* calculate_all_risk_scores logs, re-raises and closes the session.
UpsertRaises ==
    /\ pc = "upsert"
    /\ \E site \in DOMAIN scores_df : rejected' = {site}
    /\ reads' = reads + Cardinality(DOMAIN scores_df)
    /\ error' = "IntegrityError"
    /\ session' = "closed"
    /\ pc' = "failed"
    /\ UNCHANGED <<sub, scores_df, risk_scores, writes, unchangedOthers>>

\* return scores_df; finally: session.close()
Return ==
    /\ pc = "return"
    /\ session' = "closed"
    /\ pc' = "done"
    /\ UNCHANGED <<sub, scores_df, risk_scores, reads, writes, error, rejected, unchangedOthers>>

Next ==
    \/ GetSession
    \/ ComputeUrbanDensity
    \/ ComputeClimateAnomaly
    \/ ComputeSeismicRisk
    \/ ComputeFireRisk
    \/ ComputeFloodRisk
    \/ ComputeCoastalRisk
    \/ MergeScores
    \/ CompositeStep
    \/ CompositeRaises
    \/ UpsertStep
    \/ UpsertRaises
    \/ Return

Spec == Init /\ [][Next]_vars

InUnit(v, one) == v \in 0..one

\* C1: after a scoring run every site has a record whose six sub-scores and
\* composite score are numbers in [0,1], never missing.
C1_ScoresInUnitInterval ==
    pc = "done" =>
        \A site \in Sites :
            /\ site \in DOMAIN risk_scores
            /\ \A k \in WeightKeys : InUnit(risk_scores[site].scores[k], Milli)
            /\ InUnit(risk_scores[site].composite_risk_score, Nano)

C1_Witness ==
    /\ pc = "done"
    /\ risk_scores[1].scores.urban_density = Milli
    /\ risk_scores[2].scores.urban_density = 0
    /\ \A site \in Sites : risk_scores[site].scores.seismic_risk = 0
    /\ risk_scores[1].scores.coastal_risk = Milli \div 2
    /\ risk_scores[1].composite_risk_score = 300 * Micro

\* C3: when the configured weights are invalid the run fails before any
\* sub-score has been computed or the datastore has been accessed, and nothing
\* is written.
C3_ValidationComesFirst ==
    (pc = "failed" /\ error \in {"ValueError", "KeyError"}) =>
        /\ DOMAIN sub = {}
        /\ reads = 0
        /\ writes = 0

-----------------------------------------------------------------------------
(* SpecAccum: the raw totals of the seismic, fire and flood queries        *)
(*                                                                         *)
(* An observation is a row of earthquake_events, fire_events or            *)
(* flood_zones; its field dist gives, for every heritage site, the         *)
(* ST_Distance between the two in hectometres.                             *)

\* radius of ST_DWithin in the fire and the flood query, in metres
FIRE_RADIUS_M == 100000
FLOOD_RADIUS_M == 100000

\* the rows a site is paired with when every row is joined to its nearest
\* site only
DWithin_NearestOnly(rows, s, radius_m) ==
    {i \in DOMAIN rows :
        /\ rows[i].dist[s] * 100 <= radius_m
        /\ \A t \in DOMAIN rows[i].dist : rows[i].dist[s] <= rows[i].dist[t]}

\* LEFT JOIN rows ON ST_DWithin(hs.geom, row.geom, radius_m), for the site s
DWithin(rows, s, radius_m) == {i \in DOMAIN rows : rows[i].dist[s] * 100 <= radius_m}

\* a row as the site s sees it: dist is ST_Distance(hs.geom, row.geom)
FromSite(row, s) == [row EXCEPT !.dist = row.dist[s]]

\* total_energy of the site s
SiteSeismicEnergy(rows, s) ==
    Coalesce(SqlSum([i \in DOMAIN rows |-> EventEnergy(FromSite(rows[i], s))],
                    DWithin(rows, s, SEISMIC_RADIUS_M)), 0)

\* fe.frp * (fe.confidence / 100.0) / GREATEST(distance_km, 0.1), in thousandths
FireRisk(e) == (e.frp * e.confidence * 100) \div FloorDist(e.dist)

\* total_fire_risk of the site s
SiteFireRisk(rows, s) ==
    Coalesce(SqlSum([i \in DOMAIN rows |-> FireRisk(FromSite(rows[i], s))],
                    DWithin(rows, s, FIRE_RADIUS_M)), 0)

\* AVG(...) of SQL: NULL over no rows
SqlAvg(f, S) == IF S = {} THEN NaN ELSE SetSum(f, S) \div Cardinality(S)

\* flood_risk_raw of the site s: flood_count * 0.5 + avg_severity * 0.5, in
\* thousandths
SiteFloodRaw(rows, s) ==
    LET J == DWithin(rows, s, FLOOD_RADIUS_M)
        flood_count == Cardinality(J)
        avg_severity ==
            Coalesce(SqlAvg([i \in DOMAIN rows |-> rows[i].flood_intensity], J), 0)
    IN  (flood_count * Milli + avg_severity) \div 2

\* the rows of one table
TableOf(rows, cat) == SelectSeq(rows, LAMBDA e : e.cat = cat)

\* The two heritage sites of this specification.
AccSites == {1, 2}
\* Number of observations in the three tables together.
MaxObs == 2

\* distances drawn, in hectometres: 1 km, 100 km, 200 km, 200.1 km
AccDists == {10, 1000, 2000, 2001}

ObsValues ==
    [cat : {"seismic"}, mag15 : {2}, dist : [AccSites -> AccDists]]
    \cup [cat : {"fire"}, frp : {20}, confidence : {50}, dist : [AccSites -> AccDists]]
    \cup [cat : {"flood"}, flood_intensity : {500, 1000}, dist : [AccSites -> AccDists]]

InitAccum ==
    /\ obs \in UNION {[1..n -> ObsValues] : n \in 0..MaxObs}
    /\ raw_totals = <<>>
    /\ weights = DEFAULT_WEIGHTS
    /\ WeightIdle /\ CompositeIdle /\ NormIdle /\ SeismicIdle /\ RunIdle
    /\ DagIdle /\ StoreIdle /\ JoinIdle /\ ExtraIdle

\* the three queries, each giving one raw value per site
ComputeRawTotals ==
    /\ raw_totals = <<>>
    /\ raw_totals' =
          [seismic |-> [s \in AccSites |-> SiteSeismicEnergy(TableOf(obs, "seismic"), s)],
           fire |-> [s \in AccSites |-> SiteFireRisk(TableOf(obs, "fire"), s)],
           flood |-> [s \in AccSites |-> SiteFloodRaw(TableOf(obs, "flood"), s)]]
    /\ UNCHANGED <<weights, obs, weightVars, compositeVars, normVars, seismicVars,
                   runVars, dagVars, storeVars, joinVars, extraVars>>

NextAccum == ComputeRawTotals

SpecAccum == InitAccum /\ [][NextAccum]_vars

\* the category radius, in hectometres: 200 km seismic, 100 km fire and flood
RadiusHm(cat) == IF cat = "seismic" THEN 2000 ELSE 1000

\* the observations of a category within the category radius of the site s
InRange(cat, s) ==
    {i \in DOMAIN obs : obs[i].cat = cat /\ obs[i].dist[s] <= RadiusHm(cat)}

-----------------------------------------------------------------------------
(* SpecDag: a run of the DAG unesco_risk_pipeline from spatial_join on     *)
(*                                                                         *)
(* ti gives every task instance its state and the number of tries made.    *)
(* crs_valid is what validate_crs_transformation returns in this           *)
(* deployment; correlated is the set of tables whose nearest_site_id and   *)
(* distance columns the run has updated and committed.  The tasks upstream *)
(* of spatial_join are not part of this specification: it starts when      *)
(* spatial_join is scheduled.                                              *)

DagTasks == <<"spatial_join", "calculate_risk_scores", "anomaly_detection",
              "generate_folium_map">>
TaskIds == {DagTasks[i] : i \in DOMAIN DagTasks}

\* spatial_join >> calculate_risk_scores >> anomaly_detection >> generate_map
Upstream(t) ==
    {DagTasks[i] : i \in {j \in DOMAIN DagTasks : j + 1 \in DOMAIN DagTasks /\ DagTasks[j + 1] = t}}

\* default_args['retries']
RETRIES == 2

\* the tables run_full_spatial_join updates, in the order of its steps 2 to 5
JoinSteps == <<"urban_features", "earthquake_events", "fire_events", "flood_zones">>

\* run_full_spatial_join(dry_run=False): a failed validation logs an error and
\* returns; otherwise the four updates run in order, each committing its own
\* writes, and the step fail_at (0: none) raises.
run_full_spatial_join(valid, fail_at, done) ==
    IF valid # "passed" THEN [raised |-> FALSE, correlated |-> done]
    ELSE IF fail_at = 0
         THEN [raised |-> FALSE,
               correlated |-> done \cup {JoinSteps[i] : i \in DOMAIN JoinSteps}]
    ELSE [raised |-> TRUE,
          correlated |-> done \cup {JoinSteps[i] : i \in 1..(fail_at - 1)}]

\* the scheduler starts a task whose upstream tasks have all succeeded
Runnable(t) ==
    /\ ti[t].state \in {"none", "up_for_retry"}
    /\ \A u \in Upstream(t) : ti[u].state = "success"

\* the task instance after a try: a callable that returns makes it a success,
\* one that raises is retried RETRIES times and then failed
AfterTry(inst, raised) ==
    [state |-> IF ~raised THEN "success"
               ELSE IF inst.try_number < RETRIES THEN "up_for_retry" ELSE "failed",
     try_number |-> inst.try_number + 1]

InitDag ==
    /\ ti = [t \in TaskIds |-> [state |-> "none", try_number |-> 0]]
    /\ crs_valid \in {"passed", "failed"}
    /\ correlated = {}
    /\ weights = DEFAULT_WEIGHTS
    /\ WeightIdle /\ CompositeIdle /\ NormIdle /\ SeismicIdle /\ RunIdle
    /\ AccumIdle /\ StoreIdle /\ JoinIdle /\ ExtraIdle

dagOthers == <<weights, weightVars, compositeVars, normVars, seismicVars, runVars,
               accumVars, storeVars, joinVars, extraVars>>

\* spatial_join_callable: whatever run_full_spatial_join returns, it prints
\* that the join completed and returns True; an exception is re-raised
SpatialJoinTask ==
    /\ Runnable("spatial_join")
    /\ \E fail_at \in 0..Len(JoinSteps) :
          LET out == run_full_spatial_join(crs_valid, fail_at, correlated)
          IN  /\ correlated' = out.correlated
              /\ ti' = [ti EXCEPT !["spatial_join"] = AfterTry(@, out.raised)]
    /\ UNCHANGED <<crs_valid, dagOthers>>

\* calculate_risk_scores_callable: calculate_all_risk_scores returns, or raises
CalculateRiskScoresTask ==
    /\ Runnable("calculate_risk_scores")
    /\ \E raised \in BOOLEAN :
          ti' = [ti EXCEPT !["calculate_risk_scores"] = AfterTry(@, raised)]
    /\ UNCHANGED <<crs_valid, correlated, dagOthers>>

\* anomaly_detection_callable calls detect_risk_anomalies(contamination=0.1,
\* dry_run=False, verbose=True): the function has no such parameters and no
\* default for X, so the call raises TypeError
AnomalyDetectionTask ==
    /\ Runnable("anomaly_detection")
    /\ ti' = [ti EXCEPT !["anomaly_detection"] = AfterTry(@, TRUE)]
    /\ UNCHANGED <<crs_valid, correlated, dagOthers>>

\* a task with a failed upstream task is not run
MarkUpstreamFailed ==
    /\ \E t \in TaskIds :
          /\ ti[t].state = "none"
          /\ \E u \in Upstream(t) : ti[u].state \in {"failed", "upstream_failed"}
          /\ ti' = [ti EXCEPT ![t].state = "upstream_failed"]
    /\ UNCHANGED <<crs_valid, correlated, dagOthers>>

NextDag ==
    \/ SpatialJoinTask
    \/ CalculateRiskScoresTask
    \/ AnomalyDetectionTask
    \/ MarkUpstreamFailed

SpecDag == InitDag /\ [][NextDag]_vars

\* C12: when validate_crs_transformation fails, no spatial correlation is
\* written, the spatial_join task does not end as a success, and neither the
\* risk scoring nor the anomaly detection of that run is started.
C12_FailedCrsCheckIsFatal ==
    crs_valid = "failed" =>
        /\ correlated = {}
        /\ ti["spatial_join"].state # "success"
        /\ ti["calculate_risk_scores"].try_number = 0
        /\ ti["anomaly_detection"].try_number = 0

-----------------------------------------------------------------------------
(* anomaly_detection.py *)

\* load_risk_scores: one row per record, a NULL sub-score read as 0.0
load_risk_scores(table) ==
    [site \in DOMAIN table |->
        [scores |-> [k \in WeightKeys |-> FillNa(table[site].scores[k])],
         composite_risk_score |-> FillNa(table[site].composite_risk_score),
         risk_level |-> table[site].risk_level]]

\* the columns of the feature matrix, in order
feature_cols == <<"urban_density", "climate_anomaly", "seismic_risk",
                  "fire_risk", "flood_risk", "coastal_risk">>

\* a feature matrix that keeps the missing values of the frame
prepare_feature_matrix_NoFillna(df) ==
    [site \in DOMAIN df |->
        [c \in DOMAIN feature_cols |->
            IF feature_cols[c] \in DOMAIN df[site].scores
            THEN df[site].scores[feature_cols[c]]
            ELSE 0]]

\* prepare_feature_matrix: a row of the six sub-score columns for every row of
\* the frame, a column the frame lacks added as zeros, NaN replaced by 0
prepare_feature_matrix(df) ==
    [site \in DOMAIN df |->
        [c \in DOMAIN feature_cols |->
            IF feature_cols[c] \in DOMAIN df[site].scores
            THEN FillNa(df[site].scores[feature_cols[c]])
            ELSE 0]]

\* values of IsolationForest.decision_function, in thousandths
AnomalyScores == {0 - 100, 0, 50}

\* What IsolationForest(...).decision_function can return for the rows of a
\* matrix it was fitted on: equal rows score the same, and the offset (the
\* contamination quantile of the rows' scores) leaves a score on either side
\* of 0 or on it.
DecisionFunctions(Xm) ==
    {sc \in [DOMAIN Xm -> AnomalyScores] :
        /\ \A i, j \in DOMAIN Xm : Xm[i] = Xm[j] => sc[i] = sc[j]
        /\ \E i \in DOMAIN Xm : sc[i] <= 0
        /\ \E i \in DOMAIN Xm : sc[i] >= 0}

\* IsolationForest.fit_predict: -1 where the decision function is negative
FitPredict(sc) == [i \in DOMAIN sc |-> IF sc[i] < 0 THEN 0 - 1 ELSE 1]

\* detect_risk_anomalies(X): the pairs (anomaly_scores, anomaly_labels) it can
\* return
detect_risk_anomalies(Xm) ==
    {[anomaly_scores |-> sc, anomaly_labels |-> FitPredict(sc)] : sc \in DecisionFunctions(Xm)}

\* a flag raised for the rows labelled normal
IsAnomaly_Inverted(label) == label = 1

\* scores_df['is_anomaly'] = anomaly_labels == -1
IsAnomaly(label) == label = 0 - 1

\* an update that also overrides the risk level of an anomalous site, as the
\* docstring of update_anomaly_flags describes
update_anomaly_flags_Override(table, df) ==
    [site \in DOMAIN table |->
        IF site \in DOMAIN df
        THEN [table[site] EXCEPT !.isolation_forest_score = df[site].anomaly_score,
                                 !.is_anomaly = df[site].is_anomaly,
                                 !.risk_level = IF df[site].is_anomaly THEN "critical" ELSE @]
        ELSE table[site]]

\* update_anomaly_flags: the table after the loop over the rows and the commit;
\* a row without a record is skipped
update_anomaly_flags(table, df) ==
    [site \in DOMAIN table |->
        IF site \in DOMAIN df
        THEN [table[site] EXCEPT !.isolation_forest_score = df[site].anomaly_score,
                                 !.is_anomaly = df[site].is_anomaly]
        ELSE table[site]]

\* run_anomaly_detection: the tables it can leave
run_anomaly_detection(table) ==
    LET scores == load_risk_scores(table)
    IN  IF DOMAIN scores = {} THEN {table}
        ELSE {update_anomaly_flags(table,
                [site \in DOMAIN scores |->
                    [anomaly_score |-> out.anomaly_scores[site],
                     is_anomaly |-> IsAnomaly(out.anomaly_labels[site])]]) :
              out \in detect_risk_anomalies(prepare_feature_matrix(scores))}

-----------------------------------------------------------------------------
(* SpecStore: scoring passes and anomaly passes on one datastore, one at a *)
(* time                                                                    *)
(*                                                                         *)
(* site_data is what the datastore holds about every site: the aggregate   *)
(* its sub-score queries return (the same for the five normalized          *)
(* categories; NaN for a site that joins no observation).  op_log lists    *)
(* the passes and ingestions so far.                                       *)

\* Number of passes and ingestions.
MaxPasses == 4

\* steps 1 and 2 of calculate_all_risk_scores: the merged sub-score frame; a
\* site with observations lies 5 m above the sea, the elevation of the others
\* was not fetched
ObservedFrame(data) ==
    LET col == log_minmax_scale(QueryRaw(data))
        coastal == compute_coastal_risk_score(TRUE,
                      [i \in DOMAIN data |->
                          stored_coastal_risk(IF data[i] = NaN THEN NaN ELSE 5)])
    IN  [i \in DOMAIN data |->
            [k \in WeightKeys |->
                FillNa(IF k = "coastal_risk" THEN coastal[i] ELSE col[i])]]

\* calculate_all_risk_scores: the table it leaves
calculate_all_risk_scores(table, data) ==
    upsert_risk_scores(table, compute_composite_score(ObservedFrame(data), DEFAULT_WEIGHTS).df)

InitStore ==
    /\ site_data \in [Sites -> RunAggValues]
    /\ op_log = <<>>
    /\ risk_scores = <<>>
    /\ weights = DEFAULT_WEIGHTS
    /\ pc = "idle" /\ session = "none" /\ sub = <<>> /\ scores_df = <<>>
    /\ reads = 0 /\ writes = 0 /\ error = "none" /\ rejected = {}
    /\ WeightIdle /\ CompositeIdle /\ NormIdle /\ SeismicIdle
    /\ AccumIdle /\ DagIdle /\ JoinIdle /\ ExtraIdle

storeOthers == <<weights, weightVars, compositeVars, normVars, seismicVars,
                 pc, session, sub, scores_df, reads, writes, error, rejected,
                 accumVars, dagVars, joinVars, extraVars>>

\* the ETL stages replace the observations
Ingest ==
    /\ Len(op_log) < MaxPasses
    /\ \E data \in [Sites -> RunAggValues] :
          /\ data # site_data
          /\ site_data' = data
    /\ op_log' = Append(op_log, "ingest")
    /\ UNCHANGED <<risk_scores, storeOthers>>

\* a run of calculate_all_risk_scores
ScoringPass ==
    /\ Len(op_log) < MaxPasses
    /\ risk_scores' = calculate_all_risk_scores(risk_scores, site_data)
    /\ op_log' = Append(op_log, "scoring")
    /\ UNCHANGED <<site_data, storeOthers>>

\* a run of run_anomaly_detection
AnomalyPass ==
    /\ Len(op_log) < MaxPasses
    /\ risk_scores' \in run_anomaly_detection(risk_scores)
    /\ op_log' = Append(op_log, "anomaly")
    /\ UNCHANGED <<site_data, storeOthers>>

NextStore ==
    \/ Ingest
    \/ ScoringPass
    \/ AnomalyPass

SpecStore == InitStore /\ [][NextStore]_vars

LastOp == IF op_log = <<>> THEN "none" ELSE op_log[Len(op_log)]

C15_FlagIsSignOfScore ==
    \A site \in DOMAIN risk_scores :
        LET r == risk_scores[site]
        IN  /\ r.is_anomaly <=>
                  (r.isolation_forest_score # NaN /\ r.isolation_forest_score < 0)
            /\ \A other \in DOMAIN risk_scores :
                  (/\ r.is_anomaly
                   /\ ~risk_scores[other].is_anomaly
                   /\ risk_scores[other].isolation_forest_score # NaN) =>
                      r.isolation_forest_score < risk_scores[other].isolation_forest_score

\* a scoring pass on new observations after an anomaly pass that flagged site
\* 1 and not site 2
C15_Witness ==
    /\ op_log = <<"scoring", "anomaly", "ingest", "scoring">>
    /\ risk_scores[1].is_anomaly /\ risk_scores[1].isolation_forest_score = 0 - 100
    /\ ~risk_scores[2].is_anomaly /\ risk_scores[2].isolation_forest_score = 50

\* C16: a scoring pass that directly follows a scoring pass, the sites and the
\* observations being unchanged, leaves the table as it was: every record's
\* sub-scores, composite score, risk level, anomaly score and anomaly flag, and
\* the set of records.
C16_ScoringTwiceIsIdempotent ==
    [][(/\ LastOp = "scoring"
        /\ Len(op_log') = Len(op_log) + 1
        /\ op_log'[Len(op_log')] = "scoring") => risk_scores' = risk_scores]_vars

\* two scoring passes in a row on a table an anomaly pass has written to
C16_Witness ==
    /\ op_log = <<"scoring", "anomaly", "scoring", "scoring">>
    /\ risk_scores[1].is_anomaly /\ risk_scores[1].isolation_forest_score = 0 - 100
    /\ risk_scores[1].composite_risk_score = 950 * Micro
    /\ risk_scores[1].risk_level = "critical"

-----------------------------------------------------------------------------
(* Spec: what a run of calculate_all_risk_scores persists *)

\* C17: when the datastore rejects the record of exactly one site, the run
\* does not fail: that record is skipped and the record of every other site
\* is persisted with the run's scores.
C17_IsolatedFailureSkipsOneRecord ==
    Cardinality(rejected) = 1 =>
        /\ pc # "failed"
        /\ \A site \in DOMAIN scores_df \ rejected :
              /\ site \in DOMAIN risk_scores
              /\ risk_scores[site].scores = scores_df[site].scores
              /\ risk_scores[site].composite_risk_score =
                    scores_df[site].composite_risk_score

\* C18: after a scoring run every record is the run's row and nothing else: the
\* sub-scores, composite score and risk level of the run, and no anomaly score
\* or anomaly flag of an earlier pass.
C18_UpsertOverwritesWholeRecord ==
    pc = "done" =>
        \A site \in DOMAIN scores_df :
            /\ risk_scores[site].scores = scores_df[site].scores
            /\ risk_scores[site].composite_risk_score = scores_df[site].composite_risk_score
            /\ risk_scores[site].risk_level = RiskLevelStr(scores_df[site].risk_level)
            /\ risk_scores[site].isolation_forest_score = NaN
            /\ risk_scores[site].is_anomaly = FALSE

-----------------------------------------------------------------------------
(* spatial_join.py: the joins of observations to sites *)

\* A GeoDataFrame is its coordinate reference system ("none" for a frame
\* without one, as gpd.GeoDataFrame() is) and its rows in order; a row has its
\* index label, its id column and its geometry.  Geometries are points of one
\* meridian: a latitude in minutes of arc in the storage CRS, a northing in
\* metres in the computation CRS.
CRS_WGS84 == "EPSG:4326"
CRS_ETRS89_LAEA == "EPSG:3035"
METRES_PER_MINUTE == 1852

GeoDataFrame == [crs |-> "none", rows |-> <<>>]
IsEmpty(gdf) == Len(gdf.rows) = 0
IsNaive(gdf) == gdf.crs = "none"

\* gdf.to_crs(crs) of a frame that has a CRS (a naive frame makes it raise)
to_crs(gdf, crs) ==
    IF gdf.crs = crs THEN gdf
    ELSE [crs |-> crs,
          rows |-> [k \in DOMAIN gdf.rows |->
                      [gdf.rows[k] EXCEPT !.geometry =
                          IF crs = CRS_ETRS89_LAEA THEN @ * METRES_PER_MINUTE
                          ELSE @ \div METRES_PER_MINUTE]]]

Distance(a, b) == Abs(a.geometry - b.geometry)

Returned(gdf) == [outcome |-> "returned", error |-> "none", frame |-> gdf]
Raised(err) == [outcome |-> "raised", error |-> err, frame |-> GeoDataFrame]

RECURSIVE Flatten(_)
\* the rows of the frames of a sequence, one frame after another
Flatten(frames) ==
    IF frames = <<>> THEN <<>> ELSE Head(frames) \o Flatten(Tail(frames))

RECURSIVE InOrder(_, _, _)
\* the elements of the set js of positions, ascending from position j
InOrder(js, j, n) ==
    IF j > n THEN <<>>
    ELSE (IF j \in js THEN <<j>> ELSE <<>>) \o InOrder(js, j + 1, n)

\* gpd.sjoin_nearest(left, right, how="left", max_distance, distance_col):
\* a row of left is paired with every row of right at the least distance, if
\* that distance is within max_distance (a point equidistant from two rows of
\* right gives two rows), and is kept with missing values otherwise
sjoin_nearest(left, right, max_distance) ==
    LET n == Len(right.rows)
        Near(k) == {j \in 1..n : Distance(left.rows[k], right.rows[j]) <= max_distance}
        Nearest(k) == {j \in Near(k) : \A i \in Near(k) :
                          Distance(left.rows[k], right.rows[j])
                              <= Distance(left.rows[k], right.rows[i])}
        Paired(k, j) == [index |-> left.rows[k].index,
                         id_left |-> left.rows[k].id,
                         geometry |-> left.rows[k].geometry,
                         index_right |-> right.rows[j].index,
                         id_right |-> right.rows[j].id,
                         distance_to_site_m |-> Distance(left.rows[k], right.rows[j])]
        Unpaired(k) == [index |-> left.rows[k].index,
                        id_left |-> left.rows[k].id,
                        geometry |-> left.rows[k].geometry,
                        index_right |-> NaN, id_right |-> NaN,
                        distance_to_site_m |-> NaN]
        RowsOf(k) == IF Nearest(k) = {} THEN <<Unpaired(k)>>
                     ELSE LET js == InOrder(Nearest(k), 1, n)
                          IN  [i \in DOMAIN js |-> Paired(k, js[i])]
    IN  [crs |-> left.crs, rows |-> Flatten([k \in DOMAIN left.rows |-> RowsOf(k)])]

\* sites_proj.loc[label, "id"]
SiteIdAt(sites, label) ==
    LET j == CHOOSE j \in DOMAIN sites.rows : sites.rows[j].index = label
    IN  sites.rows[j].id

\* distance_to_site_km, in thousandths of a kilometre
KmOf(distance_m) == (distance_m * Milli) \div 1000

join_hazards_to_sites_Unguarded(hazards, sites, max_dist) ==
    IF IsNaive(hazards) \/ IsNaive(sites) THEN Raised("ValueError")
    ELSE
    LET hazard_proj == to_crs(hazards, CRS_ETRS89_LAEA)
        sites_proj == to_crs(sites, CRS_ETRS89_LAEA)
        nearest == sjoin_nearest(hazard_proj, sites_proj, max_dist)
        kept == SelectSeq(nearest.rows, LAMBDA r : r.distance_to_site_m # NaN)
        out == [k \in DOMAIN kept |->
                  [index |-> kept[k].index,
                   id_left |-> kept[k].id_left,
                   geometry |-> kept[k].geometry,
                   index_right |-> kept[k].index_right,
                   id_right |-> kept[k].id_right,
                   distance_to_site_m |-> kept[k].distance_to_site_m,
                   distance_to_site_km |-> KmOf(kept[k].distance_to_site_m),
                   nearest_site_id |-> SiteIdAt(sites_proj, kept[k].index_right)]]
    IN  Returned(to_crs([crs |-> CRS_ETRS89_LAEA, rows |-> out], CRS_WGS84))

join_hazards_to_sites(hazards, sites, max_dist) ==
    IF IsEmpty(hazards) \/ IsEmpty(sites) THEN Returned(GeoDataFrame)
    ELSE IF IsNaive(hazards) \/ IsNaive(sites) THEN Raised("ValueError")
    ELSE
    LET hazard_proj == to_crs(hazards, CRS_ETRS89_LAEA)
        sites_proj == to_crs(sites, CRS_ETRS89_LAEA)
        nearest == sjoin_nearest(hazard_proj, sites_proj, max_dist)
        kept == SelectSeq(nearest.rows, LAMBDA r : r.distance_to_site_m # NaN)
        out == [k \in DOMAIN kept |->
                  [index |-> kept[k].index,
                   id_left |-> kept[k].id_left,
                   geometry |-> kept[k].geometry,
                   index_right |-> kept[k].index_right,
                   id_right |-> kept[k].id_right,
                   distance_to_site_m |-> kept[k].distance_to_site_m,
                   distance_to_site_km |-> KmOf(kept[k].distance_to_site_m),
                   nearest_site_id |-> SiteIdAt(sites_proj, kept[k].index_right)]]
    IN  Returned(to_crs([crs |-> CRS_ETRS89_LAEA, rows |-> out], CRS_WGS84))

\* gpd.sjoin(left, buffers, how="inner", predicate="within"): a row for every
\* pair of a row of left and a site whose buffer of radius buffer has the
\* point in its interior
sjoin_within(left, sites, buffer) ==
    LET n == Len(sites.rows)
        Paired(k, j) == [index |-> left.rows[k].index,
                         id_left |-> left.rows[k].id,
                         geometry |-> left.rows[k].geometry,
                         index_right |-> sites.rows[j].index,
                         id_right |-> sites.rows[j].id]
        RowsOf(k) ==
            LET js == InOrder({j \in 1..n :
                                 Distance(left.rows[k], sites.rows[j]) < buffer}, 1, n)
            IN  [i \in DOMAIN js |-> Paired(k, js[i])]
    IN  [crs |-> left.crs, rows |-> Flatten([k \in DOMAIN left.rows |-> RowsOf(k)])]

\* joined.geometry.distance(gpd.GeoSeries(site_geoms)): the second series is
\* labelled 0, 1, ... in the order of the joined rows, and the two series are
\* matched by label: the row labelled l is measured against the site of the
\* joined row number l (counting from 0), and has no distance when there is no
\* such row
AlignedDistance(rows, sites, k) ==
    LET l == rows[k].index
        SiteOfRow(i) == CHOOSE j \in DOMAIN sites.rows :
                            sites.rows[j].index = rows[i].index_right
    IN  IF l + 1 \in DOMAIN rows
        THEN Abs(rows[k].geometry - sites.rows[SiteOfRow(l + 1)].geometry)
        ELSE NaN

join_urban_to_sites(urban, sites, buffer) ==
    IF IsEmpty(urban) \/ IsEmpty(sites) THEN Returned(GeoDataFrame)
    ELSE IF IsNaive(urban) \/ IsNaive(sites) THEN Raised("ValueError")
    ELSE
    LET urban_proj == to_crs(urban, CRS_ETRS89_LAEA)
        sites_proj == to_crs(sites, CRS_ETRS89_LAEA)
        within == sjoin_within(urban_proj, sites_proj, buffer)
        rows == within.rows
        \* a feature inside two buffers labels two rows alike, and the
        \* distances matched by label cannot be assigned to the frame
        duplicated == \E a, b \in DOMAIN rows : a # b /\ rows[a].index = rows[b].index
        out == [k \in DOMAIN rows |->
                  [index |-> rows[k].index,
                   id_left |-> rows[k].id_left,
                   geometry |-> rows[k].geometry,
                   index_right |-> rows[k].index_right,
                   id_right |-> rows[k].id_right,
                   distance_to_site_m |-> AlignedDistance(rows, sites_proj, k),
                   nearest_site_id |-> SiteIdAt(sites_proj, rows[k].index_right)]]
    IN  IF rows = <<>> THEN Returned(to_crs(within, CRS_WGS84))
        ELSE IF duplicated THEN Raised("ValueError")
        ELSE Returned(to_crs([crs |-> CRS_ETRS89_LAEA, rows |-> out], CRS_WGS84))

-----------------------------------------------------------------------------
(* SpecJoin: a call of each spatial join on frames of observations and sites *)

MaxRows == 2
MaxSiteRows == 2
SitePositions == {0, 60}
HazardPositions == {0, 30, 120}
UrbanPositions == {2, 59}
BatchStarts == {0, 1}
MaxDistances == {50000, 100000}
URBAN_BUFFER_M == 5000

RowLists(positions, max) ==
    UNION {[1..n -> positions] : n \in 0..max}

\* a frame as read from the datastore: labelled start, start + 1, ..., ids
\* counting from 1
FrameOf(crs, geoms, start) ==
    [crs |-> crs,
     rows |-> [k \in DOMAIN geoms |->
                 [index |-> start + k - 1, id |-> start + k, geometry |-> geoms[k]]]]

InitJoin ==
    /\ \E crs \in {CRS_WGS84, "none"}, g \in RowLists(HazardPositions, MaxRows) :
          hazard_gdf = FrameOf(crs, g, 0)
    /\ \E g \in RowLists(UrbanPositions, MaxRows), start \in BatchStarts :
          urban_gdf = FrameOf(CRS_WGS84, g, start)
    /\ \E crs \in {CRS_WGS84, "none"}, g \in RowLists(SitePositions, MaxSiteRows) :
          sites_gdf = FrameOf(crs, g, 0)
    /\ max_distance_m \in MaxDistances
    /\ buffer_m = URBAN_BUFFER_M
    /\ joined = [call |-> "none", outcome |-> "none", error |-> "none",
                 frame |-> GeoDataFrame]
    /\ weights = DEFAULT_WEIGHTS
    /\ WeightIdle /\ CompositeIdle /\ NormIdle /\ SeismicIdle /\ RunIdle
    /\ AccumIdle /\ DagIdle /\ StoreIdle /\ ExtraIdle

joinOthers == <<weights, weightVars, compositeVars, normVars, seismicVars,
                runVars, accumVars, dagVars, storeVars, extraVars>>

JoinHazards ==
    /\ joined.call = "none"
    /\ joined' = [call |-> "join_hazards_to_sites"]
                    @@ join_hazards_to_sites(hazard_gdf, sites_gdf, max_distance_m)
    /\ UNCHANGED <<hazard_gdf, urban_gdf, sites_gdf, max_distance_m, buffer_m, joinOthers>>

JoinUrban ==
    /\ joined.call = "none"
    /\ joined' = [call |-> "join_urban_to_sites"]
                    @@ join_urban_to_sites(urban_gdf, sites_gdf, buffer_m)
    /\ UNCHANGED <<hazard_gdf, urban_gdf, sites_gdf, max_distance_m, buffer_m, joinOthers>>

NextJoin == JoinHazards \/ JoinUrban

SpecJoin == InitJoin /\ [][NextJoin]_vars

\* C19: a call of join_hazards_to_sites or join_urban_to_sites whose
\* observation frame or site frame is empty returns, without raising, and the
\* frame it returns is empty.
C19_EmptyInputGivesEmptyResult ==
    /\ (joined.call = "join_hazards_to_sites"
        /\ (IsEmpty(hazard_gdf) \/ IsEmpty(sites_gdf)))
           => (joined.outcome = "returned" /\ IsEmpty(joined.frame))
    /\ (joined.call = "join_urban_to_sites"
        /\ (IsEmpty(urban_gdf) \/ IsEmpty(sites_gdf)))
           => (joined.outcome = "returned" /\ IsEmpty(joined.frame))

\* the hazard join has returned from a call with an empty frame without a
\* CRS for the hazards and two sites
C19_Witness ==
    /\ joined.call = "join_hazards_to_sites"
    /\ hazard_gdf = GeoDataFrame
    /\ Len(sites_gdf.rows) = 2
    /\ joined.outcome = "returned"
    /\ IsEmpty(joined.frame)

\* C20: in the frame join_hazards_to_sites returns, a hazard has at most one
\* row; the row names a site at the least metric distance among all sites,
\* its distance_to_site_m is that distance and is at most max_distance_m, and
\* its distance_to_site_km is distance_to_site_m / 1000; a hazard whose
\* nearest site is farther than max_distance_m has no row.
C20_NearestSiteWithCutoff ==
    (joined.call = "join_hazards_to_sites" /\ joined.outcome = "returned"
     /\ ~IsEmpty(hazard_gdf) /\ ~IsEmpty(sites_gdf)) =>
        LET rows == joined.frame.rows
            hz == to_crs(hazard_gdf, CRS_ETRS89_LAEA).rows
            st == to_crs(sites_gdf, CRS_ETRS89_LAEA).rows
            Least(h) == CHOOSE d \in {Distance(hz[h], st[j]) : j \in DOMAIN st} :
                            \A j \in DOMAIN st : d <= Distance(hz[h], st[j])
        IN  /\ \A a, b \in DOMAIN rows : rows[a].index = rows[b].index => a = b
            /\ \A k \in DOMAIN rows :
                  \E h \in DOMAIN hz, j \in DOMAIN st :
                      /\ hz[h].index = rows[k].index
                      /\ st[j].id = rows[k].nearest_site_id
                      /\ rows[k].distance_to_site_m = Distance(hz[h], st[j])
                      /\ rows[k].distance_to_site_m = Least(h)
                      /\ rows[k].distance_to_site_m <= max_distance_m
                      /\ rows[k].distance_to_site_km * 1000
                            = rows[k].distance_to_site_m * Milli
            /\ \A h \in DOMAIN hz :
                  Least(h) > max_distance_m =>
                      \A k \in DOMAIN rows : rows[k].index # hz[h].index

\* C21: in the frame join_urban_to_sites returns there is one row for every
\* pair of a feature and a site less than buffer_m apart in the metric
\* projection and no other row, and the distance_to_site_m of a row is the
\* metric distance of its feature to its site, whatever the index labels of
\* the features.
C21_BufferJoinPairsAndDistances ==
    (joined.call = "join_urban_to_sites"
     /\ ~IsEmpty(urban_gdf) /\ ~IsEmpty(sites_gdf) /\ ~IsNaive(sites_gdf)) =>
        LET rows == joined.frame.rows
            ur == to_crs(urban_gdf, CRS_ETRS89_LAEA).rows
            st == to_crs(sites_gdf, CRS_ETRS89_LAEA).rows
            Pairs == {<<u, j>> \in (DOMAIN ur) \X (DOMAIN st) :
                         Distance(ur[u], st[j]) < buffer_m}
            RowOf(u, j) == {k \in DOMAIN rows :
                               /\ rows[k].index = ur[u].index
                               /\ rows[k].nearest_site_id = st[j].id}
        IN  /\ joined.outcome = "returned"
            /\ Len(rows) = Cardinality(Pairs)
            /\ \A pr \in Pairs :
                  /\ Cardinality(RowOf(pr[1], pr[2])) = 1
                  /\ \A k \in RowOf(pr[1], pr[2]) :
                        /\ rows[k].distance_to_site_m = Distance(ur[pr[1]], st[pr[2]])
                        /\ rows[k].distance_to_site_m < buffer_m

-----------------------------------------------------------------------------
(* SpecUrban: the urban features table and the urban density query         *)
(*                                                                         *)
(* A row of urban_features has its feature_type, the ST_Area of its        *)
(* geometry in square metres, the nearest_site_id and distance_to_site_m   *)
(* columns, and dist, the metric distance to every heritage site.          *)
(* fetch_osm stores a row with the site it was fetched for and no          *)
(* distance; the spatial-join stage writes a site and the distance to it.  *)

URBAN_RADIUS_M == 10000

\* the rows of the LEFT JOIN for the site s:
\* uf.nearest_site_id = hs.id AND uf.distance_to_site_m <= 10000
UrbanJoin(rows, s) ==
    {i \in DOMAIN rows :
        /\ rows[i].nearest_site_id = s
        /\ rows[i].distance_to_site_m # NaN
        /\ rows[i].distance_to_site_m <= URBAN_RADIUS_M}

\* site_urban_stats of the site s; urban_density_raw in millionths
SiteUrbanStats(rows, s) ==
    LET J == UrbanJoin(rows, s)
        building_count == Cardinality(J)
        total_area_m2 ==
            Coalesce(SqlSum([i \in DOMAIN rows |->
                               IF rows[i].feature_type = "building"
                               THEN rows[i].area_m2 ELSE 0], J), 0)
    IN  [building_count |-> building_count,
         total_area_m2 |-> total_area_m2,
         urban_density_raw |-> building_count * Micro + total_area_m2]

UrbanSites == {1, 2}
MaxFeatures == 2
\* 1 km, 7 km and 12 km
UrbanDists == {1000, 7000, 12000}

UrbanRows ==
    {r \in [feature_type : {"building", "landuse"},
            area_m2 : {250000},
            nearest_site_id : UrbanSites,
            distance_to_site_m : {NaN} \cup UrbanDists,
            dist : [UrbanSites -> UrbanDists]] :
        r.distance_to_site_m \in {NaN, r.dist[r.nearest_site_id]}}

InitUrban ==
    /\ urban_features \in UNION {[1..n -> UrbanRows] : n \in 0..MaxFeatures}
    /\ urban_stats = <<>>
    /\ weights = DEFAULT_WEIGHTS
    /\ WeightIdle /\ CompositeIdle /\ NormIdle /\ SeismicIdle /\ RunIdle
    /\ AccumIdle /\ DagIdle /\ StoreIdle /\ JoinIdle /\ RenormIdle /\ FilterIdle /\ FeatIdle
    /\ ClimateIdle /\ CallIdle

urbanOthers == <<weights, weightVars, compositeVars, normVars, seismicVars,
                 runVars, accumVars, dagVars, storeVars, joinVars, renormVars, filterVars,
                 featVars, climateVars, callVars>>

\* the query of compute_urban_density_score
ComputeUrbanStats ==
    /\ urban_stats = <<>>
    /\ urban_stats' = [s \in UrbanSites |-> SiteUrbanStats(urban_features, s)]
    /\ UNCHANGED <<urban_features, urbanOthers>>

NextUrban == ComputeUrbanStats

SpecUrban == InitUrban /\ [][NextUrban]_vars

\* C22: the urban density raw magnitude of a site is the number of features
\* of type building within 10 km of the site plus their total footprint area
\* in square kilometres: every such building counts for the site, also when
\* it is within 10 km of the other site, and no feature of another type
\* counts.
C22_UrbanDensityOverBuildingsInBuffer ==
    urban_stats # <<>> =>
        \A s \in UrbanSites :
            LET B == {i \in DOMAIN urban_features :
                         /\ urban_features[i].feature_type = "building"
                         /\ urban_features[i].dist[s] <= URBAN_RADIUS_M}
            IN  urban_stats[s].urban_density_raw =
                    Cardinality(B) * Micro
                    + SetSum([i \in DOMAIN urban_features |-> urban_features[i].area_m2], B)

-----------------------------------------------------------------------------
(* SpecRenorm: _log_minmax_scale applied to a column of scores             *)
(*                                                                         *)
(* The column holds scores in thousandths, as a first normalization gives  *)
(* them: values of [0, 1] with a 0 and a 1 among them.                     *)

\* the scores drawn: 0, 0.25, 0.5, 0.75 and 1
ScoreValues == {0, 250, 500, 750, 1000}

\* np.log1p of a value given in thousandths, in thousandths, rounded to the
\* nearest
Log1pOfMilli(x) ==
    CASE x = 0 -> 0
      [] x = 250 -> 223
      [] x = 500 -> 405
      [] x = 750 -> 560
      [] x = 1000 -> 693

\* the rescale alone, without the log1p transform
log_minmax_scale_scores_NoLog(col) ==
    IF NotNa(col) = {} \/ SetMax({col[i] : i \in NotNa(col)}) = 0
    THEN [i \in DOMAIN col |-> 0]
    ELSE MinMaxScale(col)

\* _log_minmax_scale on a raw column given in thousandths
log_minmax_scale_scores(col) ==
    IF NotNa(col) = {} \/ SetMax({col[i] : i \in NotNa(col)}) = 0
    THEN [i \in DOMAIN col |-> 0]
    ELSE MinMaxScale([i \in DOMAIN col |->
                        IF col[i] = NaN THEN NaN ELSE Log1pOfMilli(col[i])])

\* Number of rows of the column.
RenormRows == 4

InitRenorm ==
    /\ renorm_in \in {c \in UNION {[1..n -> ScoreValues] : n \in 2..RenormRows} :
                         /\ \E i \in DOMAIN c : c[i] = 0
                         /\ \E i \in DOMAIN c : c[i] = Milli}
    /\ renorm_out = <<>>
    /\ weights = DEFAULT_WEIGHTS
    /\ WeightIdle /\ CompositeIdle /\ NormIdle /\ SeismicIdle /\ RunIdle
    /\ AccumIdle /\ DagIdle /\ StoreIdle /\ JoinIdle /\ UrbanIdle /\ FilterIdle /\ FeatIdle
    /\ ClimateIdle /\ CallIdle

renormOthers == <<weights, weightVars, compositeVars, normVars, seismicVars,
                  runVars, accumVars, dagVars, storeVars, joinVars, urbanVars, filterVars,
                  featVars, climateVars, callVars>>

Renormalize ==
    /\ renorm_out = <<>>
    /\ renorm_out' = log_minmax_scale_scores(renorm_in)
    /\ UNCHANGED <<renorm_in, renormOthers>>

NextRenorm == Renormalize

SpecRenorm == InitRenorm /\ [][NextRenorm]_vars

\* the numerical tolerance, in thousandths: the rounding of one quotient
RenormTol == 1

\* C23 as stated: normalizing a column of scores of [0, 1] that holds a 0 and
\* a 1 once more gives every element a value within numerical tolerance of
\* the value it had.
C23_NormalizerIsIdempotent ==
    renorm_out # <<>> =>
        \A i \in DOMAIN renorm_in : Abs(renorm_out[i] - renorm_in[i]) <= RenormTol

\* C23: normalizing a column of scores of [0, 1] that holds a 0 and a 1 once
\* more keeps the zeros and the ones, keeps the order of the elements, and
\* moves every value strictly between 0 and 1 up, to log1p(x) / log1p(1).
C23_SecondPassFixesEndsRaisesInterior ==
    renorm_out # <<>> =>
        /\ DOMAIN renorm_out = DOMAIN renorm_in
        /\ \A i \in DOMAIN renorm_in :
              /\ renorm_in[i] = 0 => renorm_out[i] = 0
              /\ renorm_in[i] = Milli => renorm_out[i] = Milli
              /\ (0 < renorm_in[i] /\ renorm_in[i] < Milli) =>
                    /\ renorm_out[i] > renorm_in[i] + RenormTol
                    /\ renorm_out[i] < Milli
                    /\ renorm_out[i] = (Log1pOfMilli(renorm_in[i]) * Milli) \div Log1pOfMilli(Milli)
        /\ \A i, j \in DOMAIN renorm_in :
              renorm_in[i] < renorm_in[j] => renorm_out[i] < renorm_out[j]

\* the column 0, 0.5, 1 comes back as 0, 0.584, 1
C23_Witness ==
    /\ renorm_in = <<0, 500, Milli>>
    /\ renorm_out = <<0, 584, Milli>>

-----------------------------------------------------------------------------
(* SpecFilter: fetch_unesco.filter_european_sites                          *)
(*                                                                         *)
(* A record has iso_code, the parts of the comma-separated string, and     *)
(* latitude and longitude in whole degrees.                                *)

EUROPE_ISO_CODES ==
    {"TR", "IT", "ES", "FR", "DE", "GR", "GB", "PT", "PL", "CZ",
     "HR", "AT", "CH", "BE", "NL", "SE", "NO", "DK", "FI", "RO",
     "BG", "HU", "SK", "SI", "RS", "BA", "ME", "MK", "AL", "CY",
     "MT", "IS", "IE", "LU", "LT", "LV", "EE", "MD", "UA", "BY",
     "GE", "AM", "AZ", "RU", "AD", "MC", "SM", "VA", "LI", "XK"}
EUROPE_BBOX == [min_lat |-> 34, max_lat |-> 72, min_lon |-> 0 - 25, max_lon |-> 45]

\* code.strip().upper()
StripUpper(code) ==
    CASE code = "it" -> "IT"
      [] code = " VA" -> "VA"
      [] OTHER -> code

\* filter_european_sites(records)
filter_european_sites(recs) ==
    LET IsoCodes(r) == {StripUpper(r.iso_code[k]) : k \in DOMAIN r.iso_code} \ {""}
        is_european_iso(r) == IsoCodes(r) \cap EUROPE_ISO_CODES # {}
        is_in_bbox(r) ==
            /\ EUROPE_BBOX.min_lat <= r.latitude /\ r.latitude <= EUROPE_BBOX.max_lat
            /\ EUROPE_BBOX.min_lon <= r.longitude /\ r.longitude <= EUROPE_BBOX.max_lon
    IN  SelectSeq(recs, LAMBDA r : is_european_iso(r) \/ is_in_bbox(r))

MaxRecords == 2
\* "IT", "it", "IT, VA", "AU" and the empty string
IsoCodeStrings == {<<"IT">>, <<"it">>, <<"IT", " VA">>, <<"AU">>, <<"">>}
\* Great Barrier Reef and Venice
Latitudes == {0 - 18, 45}
Longitudes == {12, 147}

SiteRecords == [iso_code : IsoCodeStrings, latitude : Latitudes, longitude : Longitudes]

InitFilter ==
    /\ records \in UNION {[1..n -> SiteRecords] : n \in 0..MaxRecords}
    /\ european_sites = [status |-> "pending", returned |-> <<>>]
    /\ weights = DEFAULT_WEIGHTS
    /\ WeightIdle /\ CompositeIdle /\ NormIdle /\ SeismicIdle /\ RunIdle
    /\ AccumIdle /\ DagIdle /\ StoreIdle /\ JoinIdle /\ UrbanIdle /\ RenormIdle /\ FeatIdle
    /\ ClimateIdle /\ CallIdle

filterOthers == <<weights, weightVars, compositeVars, normVars, seismicVars,
                  runVars, accumVars, dagVars, storeVars, joinVars, urbanVars,
                  renormVars, featVars, climateVars, callVars>>

FilterEuropeanSites ==
    /\ european_sites.status = "pending"
    /\ european_sites' = [status |-> "returned",
                          returned |-> filter_european_sites(records)]
    /\ UNCHANGED <<records, filterOthers>>

NextFilter == FilterEuropeanSites

SpecFilter == InitFilter /\ [][NextFilter]_vars

\* C24: filter_european_sites returns every record it is given: the list
\* returned is as long as the input, and a record outside Europe by ISO code
\* and by bounding box is in it.
C24_FilterReturnsEveryRecord ==
    european_sites.status = "returned" =>
        /\ Len(european_sites.returned) = Len(records)
        /\ \A k \in DOMAIN records :
              \E j \in DOMAIN european_sites.returned :
                  european_sites.returned[j] = records[k]

-----------------------------------------------------------------------------
(* SpecFeatures: a call of prepare_feature_matrix                          *)
(*                                                                         *)
(* The frame has a row per site; its rows hold the sub-score columns the   *)
(* frame has, in thousandths, NaN for a missing value.                     *)

MaxFrameRows == 2
FeatureValues == {NaN, 500}
\* every column; the two columns of the test; every column but the last; none
ColumnSets ==
    {WeightKeys, {"urban_density", "climate_anomaly"},
     WeightKeys \ {"coastal_risk"}, {}}

InitFeatures ==
    /\ \E cols \in ColumnSets, n \in 0..MaxFrameRows :
          feat_df \in [1..n -> [scores : [cols -> FeatureValues]]]
    /\ feat_X = [status |-> "pending", X |-> <<>>]
    /\ weights = DEFAULT_WEIGHTS
    /\ WeightIdle /\ CompositeIdle /\ NormIdle /\ SeismicIdle /\ RunIdle
    /\ AccumIdle /\ DagIdle /\ StoreIdle /\ JoinIdle
    /\ UrbanIdle /\ RenormIdle /\ FilterIdle /\ ClimateIdle /\ CallIdle

featOthers == <<weights, weightVars, compositeVars, normVars, seismicVars,
                runVars, accumVars, dagVars, storeVars, joinVars, urbanVars,
                renormVars, filterVars, climateVars, callVars>>

PrepareFeatureMatrix ==
    /\ feat_X.status = "pending"
    /\ feat_X' = [status |-> "returned", X |-> prepare_feature_matrix(feat_df)]
    /\ UNCHANGED <<feat_df, featOthers>>

NextFeatures == PrepareFeatureMatrix

SpecFeatures == InitFeatures /\ [][NextFeatures]_vars

\* C25: the matrix prepare_feature_matrix returns has a row for every row of
\* the frame and six columns, in the order urban, climate, seismic, fire,
\* flood, coastal; it holds no NaN: an entry is the frame's value, 0 where the
\* frame's value is NaN, and 0 where the frame lacks the column.
C25_FeatureMatrixIsCompleteAndFinite ==
    feat_X.status = "returned" =>
        /\ DOMAIN feat_X.X = DOMAIN feat_df
        /\ \A i \in DOMAIN feat_df :
              /\ Len(feat_X.X[i]) = 6
              /\ \A c \in 1..6 : feat_X.X[i][c] # NaN
              /\ \A k \in WeightKeys :
                    LET c == CASE k = "urban_density" -> 1
                               [] k = "climate_anomaly" -> 2
                               [] k = "seismic_risk" -> 3
                               [] k = "fire_risk" -> 4
                               [] k = "flood_risk" -> 5
                               [] k = "coastal_risk" -> 6
                    IN  feat_X.X[i][c] =
                           IF k \in DOMAIN feat_df[i].scores /\ feat_df[i].scores[k] # NaN
                           THEN feat_df[i].scores[k] ELSE 0

\* two rows with the two columns of the test, a NaN in each row
C25_Witness ==
    /\ feat_X.status = "returned"
    /\ Len(feat_df) = 2
    /\ DOMAIN feat_df[1].scores = {"urban_density", "climate_anomaly"}
    /\ feat_df[1].scores.urban_density = 500 /\ feat_df[1].scores.climate_anomaly = NaN
    /\ feat_df[2].scores.urban_density = NaN /\ feat_df[2].scores.climate_anomaly = 500
    /\ feat_X.X = << <<500, 0, 0, 0, 0, 0>>, <<0, 500, 0, 0, 0, 0>> >>

-----------------------------------------------------------------------------
(* SpecDagFair: a run of the DAG under a scheduler that keeps scheduling    *)

\* the scheduler runs a task that can run, and marks a task that cannot
SpecDagFair == SpecDag /\ WF_vars(NextDag)

\* C26: anomaly_detection is tried only when calculate_risk_scores has
\* succeeded; once calculate_risk_scores has succeeded, anomaly_detection
\* eventually succeeds, and once it has, generate_folium_map eventually
\* succeeds.
C26_PipelineReachesTheEnd ==
    /\ [](ti["anomaly_detection"].try_number > 0
            => ti["calculate_risk_scores"].state = "success")
    /\ (ti["calculate_risk_scores"].state = "success")
          ~> (ti["anomaly_detection"].state = "success")
    /\ (ti["anomaly_detection"].state = "success")
          ~> (ti["generate_folium_map"].state = "success")

-----------------------------------------------------------------------------
(* Spec: the commit of a run of calculate_all_risk_scores *)

\* the records of the table that hold the scores of the run's frame
PersistedByRun ==
    {site \in DOMAIN scores_df \cap DOMAIN risk_scores :
        /\ risk_scores[site].scores = scores_df[site].scores
        /\ risk_scores[site].composite_risk_score = scores_df[site].composite_risk_score
        /\ risk_scores[site].risk_level = RiskLevelStr(scores_df[site].risk_level)}

\* C27: when the commit of the run's records fails, the run has raised and
\* the table is as it was before the run, with none of the run's records;
\* when upsert_risk_scores returns, the number of records it counts is the
\* number of records of the run the table holds.
C27_CommitIsAllOrNothing ==
    /\ (pc = "failed" /\ error = "IntegrityError") =>
          /\ risk_scores = [site \in {1} |-> PriorRecord]
          /\ writes = 0
    /\ pc \in {"return", "done"} =>
          /\ writes = Cardinality(PersistedByRun)
          /\ writes = Cardinality(DOMAIN scores_df)

\* the datastore has rejected the record of site 2: the run has failed and
\* the table holds the record of site 1 written by the earlier run
C27_Witness ==
    /\ pc = "failed" /\ error = "IntegrityError"
    /\ rejected = {2}
    /\ DOMAIN scores_df = {1, 2}
    /\ scores_df[1].scores # PriorRecord.scores
    /\ risk_scores = [site \in {1} |-> PriorRecord]

-----------------------------------------------------------------------------
(* SpecClimate: the climate samples and the query of                        *)
(* compute_climate_anomaly_score                                           *)
(*                                                                         *)
(* climate_events gives, for every site, how many rows of each kind the    *)
(* table holds for it; a kind is a temp_max_c and a precipitation_mm, NaN  *)
(* for NULL.                                                               *)

\* a usual day, a hot day, a wet day without temperature, a dry day without
\* precipitation
SampleKinds ==
    {[temp_max_c |-> 10, precipitation_mm |-> 0],
     [temp_max_c |-> 40, precipitation_mm |-> 0],
     [temp_max_c |-> NaN, precipitation_mm |-> 50],
     [temp_max_c |-> 10, precipitation_mm |-> NaN]}

RECURSIVE KindSum(_, _, _)
\* the sum of Val(kind) over the rows of the kinds in S
KindSum(rows, weight, S) ==
    IF S = {} THEN 0
    ELSE LET k == CHOOSE x \in S : TRUE
         IN  rows[k] * weight[k] + KindSum(rows, weight, S \ {k})

\* site_climate_stats of a site: the rows WHERE temp_max_c IS NOT NULL AND
\* precipitation_mm IS NOT NULL, their number, and the sums and sums of
\* squares AVG and STDDEV are made of
SiteClimateStats(rows) ==
    LET Complete == {k \in DOMAIN rows : k.temp_max_c # NaN /\ k.precipitation_mm # NaN}
    IN  [total_days |-> KindSum(rows, [k \in DOMAIN rows |-> 1], Complete),
         temp_sum |-> KindSum(rows, [k \in DOMAIN rows |-> k.temp_max_c], Complete),
         temp_sq |-> KindSum(rows, [k \in DOMAIN rows |-> k.temp_max_c * k.temp_max_c], Complete),
         precip_sum |-> KindSum(rows, [k \in DOMAIN rows |-> k.precipitation_mm], Complete),
         precip_sq |-> KindSum(rows, [k \in DOMAIN rows |-> k.precipitation_mm * k.precipitation_mm],
                               Complete)]

\* x > mean + sigmas * stddev, with mean = sum / n and stddev the sample
\* deviation, NULL for fewer than two rows; a comparison with NULL is not true
Exceeds(x, n, sum, sq, sigmas) ==
    /\ x # NaN
    /\ n >= 2
    /\ LET d == n * x - sum
       IN  /\ d > 0
           /\ d * d * (n - 1) > sigmas * sigmas * n * (n * sq - sum * sum)

\* extreme_events of a site: the rows of climate_events joined to the site's
\* statistics whose temperature or precipitation exceeds its threshold
SiteExtremeDays(rows) ==
    LET scs == SiteClimateStats(rows)
        Extreme == {k \in DOMAIN rows :
                       \/ Exceeds(k.temp_max_c, scs.total_days, scs.temp_sum, scs.temp_sq, 2)
                       \/ Exceeds(k.precipitation_mm, scs.total_days, scs.precip_sum,
                                  scs.precip_sq, 3)}
    IN  IF scs.total_days = 0 THEN 0
        ELSE KindSum(rows, [k \in DOMAIN rows |-> 1], Extreme)

\* the row of the query for a site; anomaly_ratio in thousandths
SiteClimateRow(rows) ==
    LET scs == SiteClimateStats(rows)
        extreme_days == SiteExtremeDays(rows)
    IN  [extreme_days |-> extreme_days,
         total_days |-> scs.total_days,
         anomaly_ratio |-> IF scs.total_days > 0
                           THEN (extreme_days * Milli) \div scs.total_days
                           ELSE 0]

ClimateSites == {1, 2}
\* Number of usual days of a site.
MaxSamples == 5

SampleCounts ==
    {c \in [SampleKinds -> 0..MaxSamples] :
        /\ c[[temp_max_c |-> 40, precipitation_mm |-> 0]] <= 1
        /\ c[[temp_max_c |-> NaN, precipitation_mm |-> 50]] <= 3
        /\ c[[temp_max_c |-> 10, precipitation_mm |-> NaN]] <= 1}

InitClimate ==
    /\ climate_events \in [ClimateSites -> SampleCounts]
    /\ climate_stats = <<>>
    /\ weights = DEFAULT_WEIGHTS
    /\ WeightIdle /\ CompositeIdle /\ NormIdle /\ SeismicIdle /\ RunIdle
    /\ AccumIdle /\ DagIdle /\ StoreIdle /\ JoinIdle
    /\ UrbanIdle /\ RenormIdle /\ FilterIdle /\ FeatIdle /\ CallIdle

climateOthers == <<weights, weightVars, compositeVars, normVars, seismicVars,
                   runVars, accumVars, dagVars, storeVars, joinVars, urbanVars,
                   renormVars, filterVars, featVars, callVars>>

\* the query of compute_climate_anomaly_score
ComputeClimateStats ==
    /\ climate_stats = <<>>
    /\ climate_stats' = [s \in ClimateSites |-> SiteClimateRow(climate_events[s])]
    /\ UNCHANGED <<climate_events, climateOthers>>

NextClimate == ComputeClimateStats

SpecClimate == InitClimate /\ [][NextClimate]_vars

\* C28: for every site the number of days counted as extreme is at most the
\* number of days counted in the total, also when samples lack a temperature
\* or a precipitation, so the raw climate magnitude is in [0, 1]; a site
\* without samples has magnitude 0.
C28_ExtremeRatioInUnitInterval ==
    climate_stats # <<>> =>
        \A s \in ClimateSites :
            /\ climate_stats[s].extreme_days <= climate_stats[s].total_days
            /\ climate_stats[s].anomaly_ratio \in 0..Milli
            /\ (\A k \in SampleKinds : climate_events[s][k] = 0)
                  => climate_stats[s].anomaly_ratio = 0

(***************************************************************************)
(* SpecCalls: calls of calculate_all_risk_scores and run_anomaly_detection *)
(* on one datastore, one at a time                                         *)
(*                                                                         *)
(* risk_rows is the risk_scores table as a list of rows, so that two rows  *)
(* of one site can be written down; a row keeps the site and the anomaly   *)
(* flag.  sessions holds, for every session get_session has handed out,    *)
(* the number of times it was closed.  outcomes lists how the calls ended. *)
(***************************************************************************)

\* Number of calls.
MaxCalls == 4

CallSites == {1, 2}

\* get_session: a new session, not closed yet
get_session(all) == Append(all, 0)

\* session.close() on the session of the running call
session_close(all) == [all EXCEPT ![Len(all)] = @ + 1]

\* RiskScore(site_id=...): a new record; is_anomaly defaults to False
RiskScore(site) == [site_id |-> site, is_anomaly |-> FALSE]

\* session.query(RiskScore).filter_by(site_id=site).first(): the number of
\* the first row of the site in the table, 0 for None
FirstRow(table, site) ==
    IF \E i \in DOMAIN table : table[i].site_id = site
    THEN CHOOSE i \in DOMAIN table :
            /\ table[i].site_id = site
            /\ \A j \in 1..(i - 1) : table[j].site_id # site
    ELSE 0

RowsOf(table, site) == Cardinality({i \in DOMAIN table : table[i].site_id = site})

\* the unique constraint on risk_scores.site_id
UniqueSiteId(table) == \A site \in CallSites : RowsOf(table, site) <= 1

\* the site_id column of the merged sub-score frame: every sub-score query
\* selects FROM heritage_sites and groups by the site, one row per site
FrameSiteIds(sites) ==
    CHOOSE ids \in [1..Cardinality(sites) -> sites] :
        \A i, j \in DOMAIN ids : i < j => ids[i] < ids[j]

\* the site_id column of the frame of load_risk_scores: one row per record
LoadedSiteIds(table) == [i \in DOMAIN table |-> table[i].site_id]

\* the loop of upsert_risk_scores over the frame: work is the table as the
\* session will send it.  The lookup reads the table (the session does not
\* autoflush); a found record is updated in place and keeps its anomaly flag,
\* a missing one is added.
RECURSIVE UpsertRows(_, _, _)
UpsertRows(table, work, ids) ==
    IF ids = <<>> THEN work
    ELSE UpsertRows(table,
                    IF FirstRow(table, Head(ids)) # 0
                    THEN work
                    ELSE Append(work, RiskScore(Head(ids))),
                    Tail(ids))

UpdateFlagRows_InsertMissing(table, ids, labels) ==
    table \o [k \in DOMAIN ids |-> [site_id |-> ids[k], is_anomaly |-> labels[k]]]

\* the loop of update_anomaly_flags over the frame: the record found for a
\* row's site gets the row's flag, a row without a record is only logged
UpdateFlagRows(table, ids, labels) ==
    [i \in DOMAIN table |->
        IF \E k \in DOMAIN ids : ids[k] = table[i].site_id /\ FirstRow(table, ids[k]) = i
        THEN [table[i] EXCEPT !.is_anomaly =
                 labels[CHOOSE k \in DOMAIN ids :
                           ids[k] = table[i].site_id /\ FirstRow(table, ids[k]) = i]]
        ELSE table[i]]

InitCalls ==
    /\ heritage_sites \in SUBSET CallSites
    /\ risk_rows = <<>>
    /\ call = [fn |-> "none", pc |-> "idle"]
    /\ scores_ids = <<>> /\ pending = <<>>
    /\ sessions = <<>> /\ outcomes = <<>>
    /\ weights = DEFAULT_WEIGHTS
    /\ WeightIdle /\ CompositeIdle /\ NormIdle /\ SeismicIdle /\ RunIdle
    /\ AccumIdle /\ DagIdle /\ StoreIdle /\ JoinIdle
    /\ UrbanIdle /\ RenormIdle /\ FilterIdle /\ FeatIdle /\ ClimateIdle

callOthers == <<weights, weightVars, compositeVars, normVars, seismicVars,
                runVars, accumVars, dagVars, storeVars, joinVars, urbanVars,
                renormVars, filterVars, featVars, climateVars>>

Ended(fn, status, rows) == Append(outcomes, [fn |-> fn, status |-> status, rows |-> rows])

\* the UNESCO stage stores a site it had not stored
AddSite ==
    /\ call.pc = "idle"
    /\ \E site \in CallSites \ heritage_sites :
          heritage_sites' = heritage_sites \cup {site}
    /\ UNCHANGED <<risk_rows, call, scores_ids, pending, sessions, outcomes, callOthers>>

\* calculate_all_risk_scores: session = get_session()
ScoringStart ==
    /\ call.pc = "idle"
    /\ Len(sessions) < MaxCalls
    /\ sessions' = get_session(sessions)
    /\ call' = [fn |-> "scoring", pc |-> "queries"]
    /\ UNCHANGED <<heritage_sites, risk_rows, scores_ids, pending, outcomes, callOthers>>

\* calculate_all_risk_scores: a sub-score query or the composite score raises;
\* except: raise, finally: session.close()
ScoringRaises ==
    /\ call = [fn |-> "scoring", pc |-> "queries"]
    /\ sessions' = session_close(sessions)
    /\ outcomes' = Ended("scoring", "raised", 0)
    /\ call' = [fn |-> "none", pc |-> "idle"]
    /\ UNCHANGED <<heritage_sites, risk_rows, scores_ids, pending, callOthers>>

\* calculate_all_risk_scores: steps 1 to 3 and the loop of upsert_risk_scores
ScoringUpsertLoop ==
    /\ call = [fn |-> "scoring", pc |-> "queries"]
    /\ scores_ids' = FrameSiteIds(heritage_sites)
    /\ pending' = UpsertRows(risk_rows, risk_rows, FrameSiteIds(heritage_sites))
    /\ call' = [fn |-> "scoring", pc |-> "commit"]
    /\ UNCHANGED <<heritage_sites, risk_rows, sessions, outcomes, callOthers>>

\* upsert_risk_scores: session.commit() succeeds; the frame is returned;
\* finally: session.close()
ScoringCommit ==
    /\ call = [fn |-> "scoring", pc |-> "commit"]
    /\ UniqueSiteId(pending)
    /\ risk_rows' = pending
    /\ pending' = <<>>
    /\ sessions' = session_close(sessions)
    /\ outcomes' = Ended("scoring", "returned", Len(scores_ids))
    /\ call' = [fn |-> "none", pc |-> "idle"]
    /\ UNCHANGED <<heritage_sites, scores_ids, callOthers>>

\* upsert_risk_scores: session.commit() raises; rollback and raise; except:
\* raise, finally: session.close()
ScoringCommitRaises ==
    /\ call = [fn |-> "scoring", pc |-> "commit"]
    /\ pending' = <<>>
    /\ sessions' = session_close(sessions)
    /\ outcomes' = Ended("scoring", "raised", 0)
    /\ call' = [fn |-> "none", pc |-> "idle"]
    /\ UNCHANGED <<heritage_sites, risk_rows, scores_ids, callOthers>>

\* run_anomaly_detection: session = get_session()
AnomalyStart ==
    /\ call.pc = "idle"
    /\ Len(sessions) < MaxCalls
    /\ sessions' = get_session(sessions)
    /\ call' = [fn |-> "anomaly", pc |-> "load"]
    /\ UNCHANGED <<heritage_sites, risk_rows, scores_ids, pending, outcomes, callOthers>>

AnomalyNoScores_NoClose ==
    /\ call = [fn |-> "anomaly", pc |-> "load"]
    /\ risk_rows = <<>>
    /\ scores_ids' = <<>>
    /\ outcomes' = Ended("anomaly", "returned", 0)
    /\ call' = [fn |-> "none", pc |-> "idle"]
    /\ UNCHANGED <<heritage_sites, risk_rows, pending, sessions, callOthers>>

\* run_anomaly_detection: load_risk_scores finds no record; the early return
\* of an empty frame; finally: session.close()
AnomalyNoScores ==
    /\ call = [fn |-> "anomaly", pc |-> "load"]
    /\ risk_rows = <<>>
    /\ scores_ids' = <<>>
    /\ sessions' = session_close(sessions)
    /\ outcomes' = Ended("anomaly", "returned", 0)
    /\ call' = [fn |-> "none", pc |-> "idle"]
    /\ UNCHANGED <<heritage_sites, risk_rows, pending, callOthers>>

\* run_anomaly_detection: step 1 on a table with records
AnomalyLoad ==
    /\ call = [fn |-> "anomaly", pc |-> "load"]
    /\ risk_rows # <<>>
    /\ scores_ids' = LoadedSiteIds(risk_rows)
    /\ call' = [fn |-> "anomaly", pc |-> "detect"]
    /\ UNCHANGED <<heritage_sites, risk_rows, pending, sessions, outcomes, callOthers>>

\* another client of the datastore deletes a record after the frame was
\* loaded: the lookup of update_anomaly_flags will find no record for its row
RecordDeleted ==
    /\ call = [fn |-> "anomaly", pc |-> "detect"]
    /\ \E i \in DOMAIN risk_rows :
          risk_rows' = SubSeq(risk_rows, 1, i - 1) \o SubSeq(risk_rows, i + 1, Len(risk_rows))
    /\ UNCHANGED <<heritage_sites, call, scores_ids, pending, sessions, outcomes, callOthers>>

\* run_anomaly_detection: the load, the feature matrix or the forest raises;
\* except: raise, finally: session.close()
AnomalyRaises ==
    /\ call.fn = "anomaly" /\ call.pc \in {"load", "detect"}
    /\ sessions' = session_close(sessions)
    /\ outcomes' = Ended("anomaly", "raised", 0)
    /\ call' = [fn |-> "none", pc |-> "idle"]
    /\ UNCHANGED <<heritage_sites, risk_rows, scores_ids, pending, callOthers>>

\* run_anomaly_detection: steps 2 and 3 and the loop of update_anomaly_flags;
\* the forest's labels are any
AnomalyUpdateLoop ==
    /\ call = [fn |-> "anomaly", pc |-> "detect"]
    /\ \E labels \in [DOMAIN scores_ids -> BOOLEAN] :
          pending' = UpdateFlagRows(risk_rows, scores_ids, labels)
    /\ call' = [fn |-> "anomaly", pc |-> "commit"]
    /\ UNCHANGED <<heritage_sites, risk_rows, scores_ids, sessions, outcomes, callOthers>>

\* update_anomaly_flags: session.commit() succeeds; the frame is returned;
\* finally: session.close()
AnomalyCommit ==
    /\ call = [fn |-> "anomaly", pc |-> "commit"]
    /\ UniqueSiteId(pending)
    /\ risk_rows' = pending
    /\ pending' = <<>>
    /\ sessions' = session_close(sessions)
    /\ outcomes' = Ended("anomaly", "returned", Len(scores_ids))
    /\ call' = [fn |-> "none", pc |-> "idle"]
    /\ UNCHANGED <<heritage_sites, scores_ids, callOthers>>

\* update_anomaly_flags: session.commit() raises; rollback and raise; except:
\* raise, finally: session.close()
AnomalyCommitRaises ==
    /\ call = [fn |-> "anomaly", pc |-> "commit"]
    /\ pending' = <<>>
    /\ sessions' = session_close(sessions)
    /\ outcomes' = Ended("anomaly", "raised", 0)
    /\ call' = [fn |-> "none", pc |-> "idle"]
    /\ UNCHANGED <<heritage_sites, risk_rows, scores_ids, callOthers>>

NextCalls ==
    \/ AddSite
    \/ ScoringStart
    \/ ScoringRaises
    \/ ScoringUpsertLoop
    \/ ScoringCommit
    \/ ScoringCommitRaises
    \/ AnomalyStart
    \/ AnomalyNoScores
    \/ AnomalyLoad
    \/ RecordDeleted
    \/ AnomalyRaises
    \/ AnomalyUpdateLoop
    \/ AnomalyCommit
    \/ AnomalyCommitRaises

SpecCalls == InitCalls /\ [][NextCalls]_vars

\* C29: after any sequence of scoring runs and anomaly-detection runs, one at
\* a time, risk_scores holds at most one record per site; a scoring run that
\* returns leaves exactly one record for every site of heritage_sites; no step
\* of an anomaly run adds a record (a row whose record is gone is skipped),
\* and on an empty table the run writes nothing and returns an empty frame.
C29_OneRecordPerSite ==
    /\ [](UniqueSiteId(risk_rows))
    /\ [][(/\ Len(outcomes') = Len(outcomes) + 1
           /\ outcomes'[Len(outcomes')].fn = "scoring"
           /\ outcomes'[Len(outcomes')].status = "returned") =>
              \A site \in heritage_sites' : RowsOf(risk_rows', site) = 1]_vars
    /\ [][call.fn = "anomaly" =>
              \A site \in CallSites : RowsOf(risk_rows', site) <= RowsOf(risk_rows, site)]_vars
    /\ [][(call = [fn |-> "anomaly", pc |-> "load"] /\ risk_rows = <<>>) =>
              /\ risk_rows' = <<>>
              /\ call'.pc = "idle"
              /\ outcomes'[Len(outcomes')].status = "returned" =>
                    outcomes'[Len(outcomes')].rows = 0]_vars

\* two sites were scored, the record of site 1 was deleted during an anomaly
\* run, which flagged site 2 and returned two rows; a run on an empty table
\* had returned nothing before
C29_Witness ==
    /\ call.pc = "idle"
    /\ heritage_sites = {1, 2}
    /\ Len(outcomes) = 3
    /\ outcomes[1] = [fn |-> "anomaly", status |-> "returned", rows |-> 0]
    /\ outcomes[2] = [fn |-> "scoring", status |-> "returned", rows |-> 2]
    /\ outcomes[3] = [fn |-> "anomaly", status |-> "returned", rows |-> 2]
    /\ risk_rows = <<[site_id |-> 2, is_anomaly |-> TRUE]>>

\* C30: every session acquired by calculate_all_risk_scores or
\* run_anomaly_detection is closed exactly once by the time the call has
\* returned or raised, on the success path, on every error path and on the
\* early return without risk scores; no session stays open after a call, and
\* none is closed twice.
C30_SessionClosedExactlyOnce ==
    /\ \A i \in DOMAIN sessions : sessions[i] <= 1
    /\ \A i \in 1..(Len(sessions) - 1) : sessions[i] = 1
    /\ call.pc = "idle" => \A i \in DOMAIN sessions : sessions[i] = 1
    /\ call.pc # "idle" => sessions[Len(sessions)] = 0
    /\ Len(outcomes) = Cardinality({i \in DOMAIN sessions : sessions[i] = 1})

\* four calls have ended: a scoring run that returned, one that raised, an
\* anomaly run that returned early and one that raised
C30_Witness ==
    /\ call.pc = "idle"
    /\ Len(sessions) = 4
    /\ \A i \in DOMAIN sessions : sessions[i] = 1
    /\ \E i \in DOMAIN outcomes : outcomes[i].fn = "scoring" /\ outcomes[i].status = "returned"
    /\ \E i \in DOMAIN outcomes : outcomes[i].fn = "scoring" /\ outcomes[i].status = "raised"
    /\ \E i \in DOMAIN outcomes : outcomes[i] = [fn |-> "anomaly", status |-> "returned", rows |-> 0]
    /\ \E i \in DOMAIN outcomes : outcomes[i].fn = "anomaly" /\ outcomes[i].status = "raised"

====
